---- MODULE Spec2Model ----
(***************************************************************************)
(* A model of csys (imgui-console): the AutoComplete ternary search tree,  *)
(* the argument parsers and the command dispatch of System.                *)
(***************************************************************************)
EXTENDS Integers, Sequences, FiniteSets, TLC

VARIABLES
    heap,       \* allocated ACNode objects: node id -> ACNode fields
    m_Root,     \* AutoComplete::m_Root (0 is nullptr)
    m_Size,     \* AutoComplete::m_Size
    m_Count,    \* AutoComplete::m_Count
    acOut,      \* the last AutoComplete call: its name, argument and result
    rhs,        \* a second AutoComplete on the same free store: its members
    line,       \* the text handed to the argument parsers
    inputBuf,   \* the csys::String the parsers work on (their parameter input)
    cursor,     \* the size_t cursor into it (their parameter start)
    out,        \* the parser calls made on inputBuf so far, with their results
    m_Commands,                 \* System::m_Commands: key -> command
    m_CommandSuggestionTree,    \* System::m_CommandSuggestionTree
    m_VariableSuggestionTree,   \* System::m_VariableSuggestionTree
    m_CommandHistory,           \* System::m_CommandHistory
    m_ItemLog,                  \* System::m_ItemLog: the items, oldest first
    calls,      \* the invocations of command callbacks, oldest first
    m_RegisterCommandSuggestion,    \* System::m_RegisterCommandSuggestion
    m_Scripts,                  \* System::m_Scripts: name -> Script::m_Data
    m_HistoryIndex,             \* ImGuiConsole::m_HistoryIndex
    m_Buffer,                   \* ImGuiConsole::m_Buffer: the text of the input
    frames      \* the activations of System::RunScript, innermost last

acVars == <<heap, m_Root, m_Size, m_Count, acOut, rhs>>

argVars == <<line, inputBuf, cursor, out>>

\* What registration of commands and running of lines leave alone.
hostVars == <<m_RegisterCommandSuggestion, m_Scripts, m_HistoryIndex, m_Buffer,
              frames>>

sysVars == <<m_Commands, m_CommandSuggestionTree, m_VariableSuggestionTree,
             m_CommandHistory, m_ItemLog, calls, hostVars>>

vars == <<heap, m_Root, m_Size, m_Count, acOut, rhs, line, inputBuf, cursor, out,
          m_Commands, m_CommandSuggestionTree, m_VariableSuggestionTree,
          m_CommandHistory, m_ItemLog, calls,
          m_RegisterCommandSuggestion, m_Scripts, m_HistoryIndex, m_Buffer,
          frames>>

(***************************************************************************)
(* Characters and C strings                                                *)
(***************************************************************************)

\* The characters used in words, in increasing order of their char value.
Alphabet ==
    <<"a", "d", "e", "g", "h", "l", "n", "o", "p", "r", "s", "t", "u", "x", "y">>

\* The terminator of a C string.
NUL == "NUL"

Ord(c) == IF c = NUL THEN 0 ELSE CHOOSE i \in 1..Len(Alphabet) : Alphabet[i] = c

\* word[i] of a zero-terminated string (1-based): the terminator at Len + 1.
CharAt(word, i) == IF i <= Len(word) THEN word[i] ELSE NUL

IsPrefixOf(p, w) == Len(p) <= Len(w) /\ SubSeq(w, 1, Len(p)) = p

\* The words the callers insert, remove and look up.
Dict ==
    { <<"s","e","t">>, <<"s","e","t","x">>, <<"s","e","t","t">>,
      <<"s","e">>, <<"e">> }

\* The words and prefixes the callers query.
Probes == Dict \cup { <<"s">>, <<"x">> }

\* The most Insert calls of a new word in one run (m_Count never decreases).
MaxCount == 3

(***************************************************************************)
(* AutoComplete                                                            *)
(***************************************************************************)

nullptr == 0

\* The element of a singleton; The({ e(x) : x \in {v} }) is e(v) with v
\* evaluated once.
The(S) == CHOOSE x \in S : TRUE

ACNode(data) ==
    [m_Data |-> data, m_IsWord |-> FALSE,
     m_Less |-> nullptr, m_Equal |-> nullptr, m_Greater |-> nullptr]

\* operator new: the allocator hands out the lowest free node id.
NewNode(h) == CHOOSE n \in 1..(Cardinality(DOMAIN h) + 1) :
                 n \notin DOMAIN h /\ \A m \in 1..(n - 1) : m \in DOMAIN h

RECURSIVE Subtree(_, _)
Subtree(h, n) ==
    IF n = nullptr THEN {}
    ELSE {n} \cup Subtree(h, h[n].m_Less) \cup Subtree(h, h[n].m_Equal)
             \cup Subtree(h, h[n].m_Greater)

\* delete n: ~ACNode deletes the three children first.
DeleteNode(h, n) == [m \in DOMAIN h \ Subtree(h, n) |-> h[m]]

Count == m_Count

Size == m_Size

RECURSIVE SearchFrom(_, _, _, _)
SearchFrom(h, ptr, word, i) ==
    IF ptr = nullptr THEN FALSE
    ELSE IF Ord(CharAt(word, i)) < Ord(h[ptr].m_Data)
         THEN SearchFrom(h, h[ptr].m_Less, word, i)
    ELSE IF CharAt(word, i) = h[ptr].m_Data
         THEN IF CharAt(word, i + 1) = NUL /\ h[ptr].m_IsWord
              THEN TRUE
              ELSE SearchFrom(h, h[ptr].m_Equal, word, i + 1)
    ELSE SearchFrom(h, h[ptr].m_Greater, word, i)

Search(h, root, word) == SearchFrom(h, root, word, 1)

\* ACNode **ptr: the root pointer (node 0) or a child field of a node.
Deref(s, slot) ==
    IF slot[1] = 0 THEN s.root ELSE s.heap[slot[1]][slot[2]]

Assign(s, slot, v) ==
    IF slot[1] = 0 THEN [s EXCEPT !.root = v]
    ELSE [s EXCEPT !.heap[slot[1]][slot[2]] = v]

\* The body of Insert's while loop, s = [heap, root, size, count].
RECURSIVE InsertLoop(_, _, _, _)
InsertLoop(s, slot, word, i) ==
    IF CharAt(word, i) = NUL THEN s
    ELSE
      LET s1 == IF Deref(s, slot) = nullptr
                THEN LET n == NewNode(s.heap)
                     IN  Assign([s EXCEPT !.heap = s.heap @@ (n :> ACNode(word[i])),
                                          !.size = s.size + 1], slot, n)
                ELSE s
          p  == Deref(s1, slot)
      IN  IF Ord(word[i]) < Ord(s1.heap[p].m_Data)
          THEN InsertLoop(s1, <<p, "m_Less">>, word, i)
          ELSE IF word[i] = s1.heap[p].m_Data
          THEN LET s2 == IF CharAt(word, i + 1) = NUL
                         THEN [s1 EXCEPT
                                 !.count = IF s1.heap[p].m_IsWord
                                           THEN s1.count - 1 ELSE s1.count,
                                 !.heap[p].m_IsWord = TRUE]
                         ELSE s1
               IN  InsertLoop(s2, <<p, "m_Equal">>, word, i + 1)
          ELSE InsertLoop(s1, <<p, "m_Greater">>, word, i)

InsertWord(s, word) ==
    InsertLoop([s EXCEPT !.count = s.count + 1], <<0, "m_Root">>, word, 1)

\* NoChildren with the sibling checks forgotten.
NoChildrenOnlyEqual(node) == node.m_Equal = nullptr

NoChildren(node) ==
    node.m_Equal = nullptr /\ node.m_Less = nullptr /\ node.m_Greater = nullptr

\* RemoveAux(root, word + i - 1): the heap afterwards and the returned flag.
RECURSIVE RemoveAux(_, _, _, _)
RemoveAux(h, root, word, i) ==
    IF root = nullptr THEN [heap |-> h, ret |-> FALSE]
    ELSE IF CharAt(word, i + 1) = NUL /\ h[root].m_Data = CharAt(word, i)
    THEN IF h[root].m_IsWord
         THEN [heap |-> [h EXCEPT ![root].m_IsWord = FALSE],
               ret  |-> NoChildren(h[root])]
         ELSE [heap |-> h, ret |-> FALSE]
    ELSE IF Ord(CharAt(word, i)) < Ord(h[root].m_Data)
    THEN [heap |-> RemoveAux(h, h[root].m_Less, word, i).heap, ret |-> FALSE]
    ELSE IF Ord(CharAt(word, i)) > Ord(h[root].m_Data)
    THEN [heap |-> RemoveAux(h, h[root].m_Greater, word, i).heap, ret |-> FALSE]
    ELSE LET r == RemoveAux(h, h[root].m_Equal, word, i + 1)
         IN  IF r.ret
             THEN LET h2 == [DeleteNode(r.heap, r.heap[root].m_Equal)
                               EXCEPT ![root].m_Equal = nullptr]
                  IN  [heap |-> h2,
                       ret  |-> ~h2[root].m_IsWord /\ NoChildren(h2[root])]
             ELSE [heap |-> r.heap, ret |-> FALSE]

RemoveWord(h, root, word) == RemoveAux(h, root, word, 1).heap

\* DeepClone hanging the clone of the m_Less child on m_Greater and the
\* clone of the m_Greater child on m_Less.
RECURSIVE DeepCloneMirrored(_, _, _)
DeepCloneMirrored(h, src, dest) ==
    IF src = nullptr THEN [heap |-> h, dest |-> dest]
    ELSE The({ The({ The({ The({
         [heap |-> [g.heap EXCEPT ![n].m_Less = g.dest,
                                  ![n].m_Equal = e.dest,
                                  ![n].m_Greater = l.dest],
          dest |-> n]
         : g \in {DeepCloneMirrored(e.heap, h[src].m_Greater, h[src].m_Greater)} })
         : e \in {DeepCloneMirrored(l.heap, h[src].m_Equal, h[src].m_Equal)} })
         : l \in {DeepCloneMirrored((n :> h[src]) @@ h, h[src].m_Less, h[src].m_Less)} })
         : n \in {NewNode(h)} })

\* DeepClone(src, dest) on the free store h: the store afterwards and the
\* value of the reference dest, which is left as it was when src is null.
\* new ACNode(*src) copies the three child pointers of src; each is then
\* overwritten by the clone of a child that exists.
RECURSIVE DeepClone(_, _, _)
DeepClone(h, src, dest) ==
    IF src = nullptr THEN [heap |-> h, dest |-> dest]
    ELSE The({ The({ The({ The({
         [heap |-> [g.heap EXCEPT ![n].m_Less = l.dest,
                                  ![n].m_Equal = e.dest,
                                  ![n].m_Greater = g.dest],
          dest |-> n]
         : g \in {DeepClone(e.heap, h[src].m_Greater, h[src].m_Greater)} })
         : e \in {DeepClone(l.heap, h[src].m_Equal, h[src].m_Equal)} })
         : l \in {DeepClone((n :> h[src]) @@ h, h[src].m_Less, h[src].m_Less)} })
         : n \in {NewNode(h)} })

\* The defaulted move constructor and move assignment copy the three
\* members; the pointer and the two size_t of the source keep their values.
MovedFrom(src) == [m_Root |-> src.m_Root, m_Size |-> src.m_Size, m_Count |-> src.m_Count]

\* SuggestionsAux: the words below root, in order, each prefixed by buffer.
RECURSIVE SuggestionsAux(_, _, _)
SuggestionsAux(h, root, buffer) ==
    IF root = nullptr THEN <<>>
    ELSE (IF h[root].m_Less # nullptr
          THEN SuggestionsAux(h, h[root].m_Less, buffer) ELSE <<>>)
      \o (IF h[root].m_IsWord
          THEN <<Append(buffer, h[root].m_Data)>> ELSE <<>>)
      \o (IF h[root].m_Equal # nullptr
          THEN SuggestionsAux(h, h[root].m_Equal, Append(buffer, h[root].m_Data))
          ELSE <<>>)
      \o (IF h[root].m_Greater # nullptr
          THEN SuggestionsAux(h, h[root].m_Greater, buffer) ELSE <<>>)

\* The traversal of Suggestions: the node of the prefix's last character, or
\* nullptr when the prefix is not in the tree.
RECURSIVE FindPrefix(_, _, _, _)
FindPrefix(h, ptr, prefix, i) ==
    IF ptr = nullptr THEN nullptr
    ELSE IF Ord(CharAt(prefix, i)) < Ord(h[ptr].m_Data)
         THEN FindPrefix(h, h[ptr].m_Less, prefix, i)
    ELSE IF CharAt(prefix, i) = h[ptr].m_Data
         THEN IF CharAt(prefix, i + 1) = NUL
              THEN ptr
              ELSE FindPrefix(h, h[ptr].m_Equal, prefix, i + 1)
    ELSE FindPrefix(h, h[ptr].m_Greater, prefix, i)

\* PartialChain with an if in place of the while: one character at most.
PartialChainOnce(h, pc_ptr, prefix) ==
    IF pc_ptr = nullptr THEN prefix
    ELSE IF h[pc_ptr].m_Equal # nullptr /\ h[pc_ptr].m_Less = nullptr
            /\ h[pc_ptr].m_Greater = nullptr
         THEN Append(prefix, h[pc_ptr].m_Data)
         ELSE prefix

\* The partial completion loop assigning the chain to the prefix in place
\* of appending to it.
RECURSIVE PartialChainAssigned(_, _, _)
PartialChainAssigned(h, pc_ptr, prefix) ==
    IF pc_ptr = nullptr THEN <<>>
    ELSE IF h[pc_ptr].m_Equal # nullptr /\ h[pc_ptr].m_Less = nullptr
            /\ h[pc_ptr].m_Greater = nullptr
         THEN <<h[pc_ptr].m_Data>> \o PartialChainAssigned(h, h[pc_ptr].m_Equal, prefix)
         ELSE <<>>

\* The partial completion loop: prefix.push_back along the chain of nodes
\* that have an m_Equal child and neither m_Less nor m_Greater.
RECURSIVE PartialChain(_, _, _)
PartialChain(h, pc_ptr, prefix) ==
    IF pc_ptr = nullptr THEN prefix
    ELSE IF h[pc_ptr].m_Equal # nullptr /\ h[pc_ptr].m_Less = nullptr
            /\ h[pc_ptr].m_Greater = nullptr
         THEN PartialChain(h, h[pc_ptr].m_Equal, Append(prefix, h[pc_ptr].m_Data))
         ELSE prefix

\* Suggestions without the "already a word" return.
SuggestionsNoWordCheck(h, root, prefix, partial_complete) ==
    LET ptr == FindPrefix(h, root, prefix, 1)
    IN  [prefix  |-> IF ptr # nullptr /\ partial_complete
                     THEN PartialChain(h, h[ptr].m_Equal, prefix) ELSE prefix,
         options |-> IF ptr = nullptr THEN <<>>
                     ELSE SuggestionsAux(h, h[ptr].m_Equal, prefix)]

\* Suggestions(std::string &prefix, r_sVector ac_options, bool partial_complete)
\* and, with partial_complete FALSE, Suggestions(const char *, r_sVector).
Suggestions(h, root, prefix, partial_complete) ==
    LET ptr == FindPrefix(h, root, prefix, 1)
        completed == IF ptr # nullptr /\ partial_complete
                     THEN PartialChain(h, h[ptr].m_Equal, prefix)
                     ELSE prefix
    IN  [prefix  |-> completed,
         options |-> IF ptr = nullptr \/ h[ptr].m_IsWord THEN <<>>
                     ELSE SuggestionsAux(h, h[ptr].m_Equal, prefix)]

(***************************************************************************)
(* csys::String and the reserved characters.  Positions are the 0-based    *)
(* size_t indices of the source; std::string::npos is -1.                  *)
(***************************************************************************)

npos == 0 - 1

\* input.m_String[pos]
At(str, pos) == str[pos + 1]

\* input.m_String[pos] = c
SetAt(str, pos, c) == [str EXCEPT ![pos + 1] = c]

\* std::string::substr(pos, n) for pos <= size (n is clamped to the end).
Substr(str, pos, n) ==
    LET last == IF pos + n > Len(str) THEN Len(str) ELSE pos + n
    IN  SubSeq(str, pos + 1, last)

SetMin(S) == CHOOSE x \in S : \A y \in S : x <= y

\* std::isspace in the "C" locale, for the characters of the model.
IsSpace(c) == c = " " \/ c = "\t" \/ c = "\n" \/ c = "\r" \/ c = "\f"

\* String::End
End(str) == Len(str) + 1

\* NextPoi with the second loop left out: the range runs to the end.
NextPoiToEnd(str, start) ==
    LET end    == Len(str)
        nonws  == { p \in start..(end - 1) : ~IsSpace(At(str, p)) }
    IN  [first |-> IF nonws = {} THEN end + 1 ELSE SetMin(nonws), second |-> end]

\* String::NextPoi: the returned pair; the caller's start becomes .second.
NextPoi(str, start) ==
    LET end    == Len(str)
        nonws  == { p \in start..(end - 1) : ~IsSpace(At(str, p)) }
        first  == IF nonws = {} THEN end + 1 ELSE SetMin(nonws)
        pos    == IF nonws = {} THEN (IF start < end THEN end ELSE start)
                  ELSE first
        ws     == { p \in pos..(end - 1) : IsSpace(At(str, p)) }
        second == IF ws = {} THEN end ELSE SetMin(ws)
    IN  [first |-> first, second |-> second]

\* s_Reserved
s_Reserved == { "\\", "[", "]", "\"" }

\* s_ErrMsgReserved
s_ErrMsgReserved == "Reserved chars '\\, [, ], \"' must be escaped with \\"

IsEscapeChar(c) == c = "\\"

\* IsReservedChar finding no character reserved.
IsReservedCharNever(c) == FALSE

IsReservedChar(c) == c \in s_Reserved

\* IsEscaping finding no escape pair.
IsEscapingNever(input, pos) == FALSE

\* Reserved::IsEscaping (input.size() - 1 wraps for an empty string, which
\* has no position to ask about).
IsEscaping(input, pos) ==
    /\ pos < Len(input) - 1
    /\ IsEscapeChar(At(input, pos))
    /\ IsReservedChar(At(input, pos + 1))

RECURSIVE IsEscapedLoop(_, _, _)
IsEscapedLoop(input, i, result) ==
    IF i > 0 /\ IsReservedChar(At(input, i)) /\ IsEscapeChar(At(input, i - 1))
    THEN IsEscapedLoop(input, i - 1, ~result)
    ELSE result

\* IsEscaped looking at the one character before pos.
IsEscapedByPrevious(input, pos) == pos > 0 /\ IsEscapeChar(At(input, pos - 1))

\* IsEscaped that ignores the escape markers.
IsEscapedNever(input, pos) == FALSE

\* Reserved::IsEscaped
IsEscaped(input, pos) == IsEscapedLoop(input, pos, FALSE)

\* find(c, from), then the while loop that skips the escaped occurrences.
FindUnescaped(input, c, from) ==
    LET at == { p \in from..(Len(input) - 1) :
                  At(input, p) = c /\ ~IsEscaped(input, p) }
    IN  IF at = {} THEN npos ELSE SetMin(at)

(***************************************************************************)
(* ArgumentParser<T>.  A parse returns the status (ok, or the exception    *)
(* thrown), m_Value, the input buffer and the cursor as the call left      *)
(* them, and the exception's message.                                      *)
(***************************************************************************)

Parsed(value, input, start) ==
    [status |-> "ok", value |-> value, input |-> input, start |-> start,
     err |-> ""]

\* throw Exception(message, arg)
Thrown(message, input, start) ==
    [status |-> "ParseError", value |-> <<>>, input |-> input,
     start |-> start, err |-> message]

\* An exception of the standard library that no handler of csys catches.
StdThrown(what, input, start) ==
    [status |-> what, value |-> <<>>, input |-> input, start |-> start,
     err |-> what]

Digits == <<"0", "1", "2", "3", "4", "5", "6", "7", "8", "9">>

IsDigit(c) == \E i \in 1..Len(Digits) : Digits[i] = c

DigitValue(c) == (CHOOSE i \in 1..Len(Digits) : Digits[i] = c) - 1

\* The length of the longest prefix of digits.
RECURSIVE DigitRun(_, _)
DigitRun(tok, i) ==
    IF i <= Len(tok) /\ IsDigit(tok[i]) THEN DigitRun(tok, i + 1) ELSE i - 1

RECURSIVE DecimalValue(_, _)
DecimalValue(tok, n) ==
    IF n = 0 THEN 0 ELSE DecimalValue(tok, n - 1) * 10 + DigitValue(tok[n])

\* The integer types with an ARG_PARSE_GENERAL_SPEC.
IntTypes ==
    { "short", "unsigned short", "int", "unsigned int", "long",
      "unsigned long", "long long", "unsigned long long" }

\* The widths a long can have: 64 bits (LP64) or 32 bits (LLP64).
LongBits == { 32, 64 }

\* TYPE_NAME in "Argument too large for " + TYPE_NAME
TooLargeMsg(T) ==
    CASE T = "short"              -> "Argument too large for signed short"
      [] T = "unsigned short"     -> "Argument too large for unsigned short"
      [] T = "int"                -> "Argument too large for signed int"
      [] T = "unsigned int"       -> "Argument too large for unsigned int"
      [] T = "long"               -> "Argument too large for long"
      [] T = "unsigned long"      -> "Argument too large for unsigned long"
      [] T = "long long"          -> "Argument too large for long long"
      [] T = "unsigned long long" -> "Argument too large for unsigned long long"

\* "Missing or invalid " + TYPE_NAME + " argument"
InvalidMsg(T) ==
    CASE T = "short"              -> "Missing or invalid signed short argument"
      [] T = "unsigned short"     -> "Missing or invalid unsigned short argument"
      [] T = "int"                -> "Missing or invalid signed int argument"
      [] T = "unsigned int"       -> "Missing or invalid unsigned int argument"
      [] T = "long"               -> "Missing or invalid long argument"
      [] T = "unsigned long"      -> "Missing or invalid unsigned long argument"
      [] T = "long long"          -> "Missing or invalid long long argument"
      [] T = "unsigned long long" -> "Missing or invalid unsigned long long argument"

\* FUNCTION of the type's ARG_PARSE_GENERAL_SPEC.
Function(T) ==
    CASE T \in {"short", "int"} -> "stoi"
      [] T \in {"unsigned short", "unsigned int", "unsigned long"} -> "stoul"
      [] T = "long"               -> "stol"
      [] T = "long long"          -> "stoll"
      [] T = "unsigned long long" -> "stoull"

IsSigned(T) == T \in {"short", "int", "long", "long long"}

\* The width of TYPE when a long has L bits.
Bits(T, L) ==
    CASE T \in {"short", "unsigned short"}           -> 16
      [] T \in {"int", "unsigned int"}               -> 32
      [] T \in {"long", "unsigned long"}             -> L
      [] T \in {"long long", "unsigned long long"}   -> 64

\* The width of the result of strtol, strtoul, strtoll, strtoull behind
\* FUNCTION.
FnBits(f, L) == IF f \in {"stoll", "stoull"} THEN 64 ELSE L

FnSigned(f) == f \in {"stoi", "stol", "stoll"}

\* Numbers of up to 64 bits are kept as four limbs of 16 bits, the least
\* significant first.
Limb == 2^16

\* limbs * 10 + d, and whether it left 64 bits.
MulAdd10(l, d) ==
    The({ The({ The({ The({
        [limbs |-> <<a1 % Limb, a2 % Limb, a3 % Limb, a4 % Limb>>,
         over  |-> a4 \div Limb # 0]
        : a4 \in {l[4] * 10 + a3 \div Limb} })
        : a3 \in {l[3] * 10 + a2 \div Limb} })
        : a2 \in {l[2] * 10 + a1 \div Limb} })
        : a1 \in {l[1] * 10 + d} })

\* The magnitude of the digits tok[from .. to].
RECURSIVE Magnitude(_, _, _)
Magnitude(tok, from, to) ==
    IF to < from THEN [limbs |-> <<0, 0, 0, 0>>, over |-> FALSE]
    ELSE The({ The({ [limbs |-> n.limbs, over |-> m.over \/ n.over]
                     : n \in {MulAdd10(m.limbs, DigitValue(tok[to]))} })
               : m \in {Magnitude(tok, from, to - 1)} })

\* a <= b for limbs.
LimbLE(a, b) ==
    \/ a[4] < b[4]
    \/ a[4] = b[4] /\ a[3] < b[3]
    \/ a[4] = b[4] /\ a[3] = b[3] /\ a[2] < b[2]
    \/ a[4] = b[4] /\ a[3] = b[3] /\ a[2] = b[2] /\ a[1] <= b[1]

\* 2^bits - 1
MaxUnsigned(bits) == [i \in 1..4 |-> IF 16 * i <= bits THEN Limb - 1 ELSE 0]

\* 2^(bits - 1) - 1
MaxSigned(bits) ==
    [i \in 1..4 |-> IF 16 * i < bits THEN Limb - 1
                    ELSE IF 16 * i = bits THEN Limb \div 2 - 1 ELSE 0]

\* 2^(bits - 1)
MinSignedMagnitude(bits) ==
    [i \in 1..4 |-> IF 16 * i = bits THEN Limb \div 2 ELSE 0]

\* The two's complement of l in 64 bits.
Negate(l) ==
    The({ The({ The({ The({
        <<a1 % Limb, a2 % Limb, a3 % Limb, a4 % Limb>>
        : a4 \in {Limb - 1 - l[4] + a3 \div Limb} })
        : a3 \in {Limb - 1 - l[3] + a2 \div Limb} })
        : a2 \in {Limb - 1 - l[2] + a1 \div Limb} })
        : a1 \in {Limb - 1 - l[1] + 1} })

\* The low bits of l.
Truncate(l, bits) == [i \in 1..4 |-> IF 16 * i <= bits THEN l[i] ELSE 0]

IsSign(c) == c = "+" \/ c = "-"

\* strtol, strtoul, strtoll, strtoull in base 10 on a token (which holds no
\* whitespace): an optional sign and the longest run of digits.  conv tells
\* whether anything was converted, erange whether errno is ERANGE, magnitude
\* is the number the digits denote and limbs the result in two's complement.
Strto(f, L, tok) ==
    LET signed == tok # <<>> /\ IsSign(tok[1])
        from   == IF signed THEN 2 ELSE 1
        to     == DigitRun(tok, from)
        neg    == signed /\ tok[1] = "-"
        bits   == FnBits(f, L)
    IN  IF to < from
        THEN [conv |-> FALSE, erange |-> FALSE, limbs |-> <<0, 0, 0, 0>>,
              magnitude |-> <<0, 0, 0, 0>>]
        ELSE The({
             [conv   |-> TRUE,
              magnitude |-> m.limbs,
              erange |-> \/ m.over
                         \/ IF FnSigned(f)
                            THEN ~LimbLE(m.limbs, IF neg THEN MinSignedMagnitude(bits)
                                                  ELSE MaxSigned(bits))
                            ELSE ~LimbLE(m.limbs, MaxUnsigned(bits)),
              limbs  |-> IF neg THEN Negate(m.limbs) ELSE m.limbs]
             : m \in {Magnitude(tok, from, to)} })

\* std::stoi .. std::stoull: what they throw, if anything, and the result.
\* std::stoi also throws std::out_of_range for a long outside [INT_MIN,
\* INT_MAX].
Sto(f, L, tok) ==
    The({
        [throws |-> IF ~c.conv THEN "std::invalid_argument"
                    ELSE IF c.erange THEN "std::out_of_range"
                    ELSE IF f = "stoi"
                            /\ ~LimbLE(c.magnitude, IF tok[1] = "-"
                                                    THEN MinSignedMagnitude(32)
                                                    ELSE MaxSigned(32))
                    THEN "std::out_of_range"
                    ELSE "nothing",
         limbs  |-> c.limbs]
        : c \in {Strto(f, L, tok)} })

\* (TYPE) of the result: the low Bits(T, L) bits.  The value of a short, an
\* unsigned short and an int is given as an integer, that of the wider types
\* as its limbs.
CastTo(T, L, limbs) ==
    LET t == Truncate(limbs, Bits(T, L))
    IN  IF T = "short"
        THEN (IF t[1] >= Limb \div 2 THEN t[1] - Limb ELSE t[1])
        ELSE IF T = "unsigned short" THEN t[1]
        ELSE IF T = "int"
        THEN (IF t[2] >= Limb \div 2 THEN (t[2] - Limb) * Limb + t[1]
              ELSE t[2] * Limb + t[1])
        ELSE SubSeq(t, 1, Bits(T, L) \div 16)

\* ARG_PARSE_GENERAL_SPEC(TYPE, TYPE_NAME, FUNCTION) for an integer type, in
\* a build whose long has L bits.  Without a token, substr throws
\* std::out_of_range, in the try block and again in its handler.
ParseNumber(T, L, input, start) ==
    LET range == NextPoi(input, start)
        tok   == Substr(input, range.first, range.second - range.first)
    IN  IF range.first > Len(input)
        THEN StdThrown("std::out_of_range", input, range.second)
        ELSE The({
             IF r.throws = "std::out_of_range"
             THEN Thrown(TooLargeMsg(T), input, range.second)
             ELSE IF r.throws = "std::invalid_argument"
             THEN Thrown(InvalidMsg(T), input, range.second)
             ELSE Parsed(CastTo(T, L, r.limbs), input, range.second)
             : r \in {Sto(Function(T), L, tok)} })

\* ARG_PARSE_GENERAL_SPEC(int, "signed int", std::stoi); an int has 32 bits
\* whatever the width of a long.
ParseInt(input, start) == ParseNumber("int", 64, input, start)

\* The GetWord lambda: [ok, word].
RECURSIVE GetWord(_, _, _, _)
GetWord(str, i, end, result) ==
    IF i >= end THEN [ok |-> TRUE, word |-> result]
    ELSE IF ~IsReservedChar(At(str, i))
         THEN GetWord(str, i + 1, end, Append(result, At(str, i)))
    ELSE IF IsEscapeChar(At(str, i)) /\ IsEscaping(str, i)
         THEN GetWord(str, i + 2, end, Append(result, At(str, i + 1)))
    ELSE [ok |-> FALSE, word |-> result]

\* The while (true) loop of the quoted ("multi word") branch.
RECURSIVE QuotedLoop(_, _, _, _)
QuotedLoop(input, start, first, value) ==
    LET second == FindUnescaped(input, "\"", first)
        w      == GetWord(input, first, second, <<>>)
        next   == second + 1
    IN  IF second = npos
        THEN Thrown("Could not find closing '\"'", input, start)
        ELSE IF ~w.ok
        THEN Thrown(s_ErrMsgReserved, input, start)
        ELSE IF next < Len(input) /\ ~IsSpace(At(input, next))
        THEN QuotedLoop(input, start,
                        IF At(input, next) = "\"" THEN next + 1 ELSE next,
                        value \o w.word)
        ELSE Parsed(value \o w.word, input, second + 1)

\* ArgumentParser<csys::String>.  Called with no token left it reads
\* m_String[size + 1], which is outside the string.
ParseString(input, start) ==
    LET range == NextPoi(input, start)
    IN  IF range.first > Len(input)
        THEN StdThrown("undefined behaviour", input, range.second)
        ELSE IF At(input, range.first) # "\""
        THEN LET w == GetWord(input, range.first, range.second, <<>>)
             IN  IF w.ok THEN Parsed(w.word, input, range.second + 1)
                 ELSE Thrown(s_ErrMsgReserved, input, range.second)
        ELSE QuotedLoop(input, range.second, range.first + 1, <<>>)

\* The argument types: "int", "String" and <<"vector", T>>.
VectorOf(T) == <<"vector", T>>

RECURSIVE ParseArg(_, _, _)
RECURSIVE VectorInner(_, _, _, _, _)
RECURSIVE VectorOuter(_, _, _, _, _)

\* VectorInner without "start = range.first" on the way out.
RECURSIVE VectorInnerStaleStart(_, _, _, _, _)
VectorInnerStaleStart(T, input, start, second, value) ==
    LET first == NextPoi(input, start).first
    IN  IF first >= second THEN Parsed(value, input, start)
        ELSE LET r == ParseArg(T, input, start)
             IN  IF r.status # "ok" THEN r
                 ELSE VectorInnerStaleStart(T, r.input, r.start, second,
                                            Append(value, r.value))

\* The inner while (true) of the vector parser: the elements up to the
\* erased ] at second.  range.first equals start at the top of the loop.
VectorInner(T, input, start, second, value) ==
    LET first == NextPoi(input, start).first
    IN  IF first >= second THEN Parsed(value, input, first)
        ELSE LET r == ParseArg(T, input, start)
             IN  IF r.status # "ok" THEN r
                 ELSE VectorInner(T, r.input, r.start, second,
                                  Append(value, r.value))

\* The outer while (true) of the vector parser; first is range.first.
VectorOuter(T, input, start, first, value) ==
    LET range == NextPoi(input, first)
    IN  IF range.first = End(input) THEN Parsed(value, input, start)
        ELSE IF At(input, range.first) = "["
        THEN LET r == ParseArg(T, input, range.first)
             IN  IF r.status # "ok" THEN [r EXCEPT !.start = start]
                 ELSE VectorOuter(T, r.input, start, r.start,
                                  Append(value, r.value))
        ELSE LET second == FindUnescaped(input, "]", range.first)
             IN  IF second = npos
                 THEN Thrown("Invalid vector argument missing closing ]",
                             input, start)
                 ELSE VectorInner(T, SetAt(input, second, " "), range.first,
                                  second, value)

\* ArgumentParser<std::vector<T>>
ParseVector(T, input, start) ==
    LET range == NextPoi(input, start)
    IN  IF range.first = End(input) THEN Parsed(<<>>, input, range.second)
        ELSE IF At(input, range.first) # "["
        THEN Thrown("Invalid vector argument missing opening [",
                    input, range.second)
        ELSE VectorOuter(T, SetAt(input, range.first, " "), range.second,
                         range.first, <<>>)

CharTypes == {"char", "unsigned char"}

\* ARG_PARSE_BASE_SPEC(char) and ARG_PARSE_BASE_SPEC(unsigned char), which
\* differ in the static_cast of the value only.  Without a token len wraps
\* to a huge size_t and substr throws std::out_of_range while the argument
\* of the Exception is built.
ParseChar(T, input, start) ==
    LET range == NextPoi(input, start)
        len   == range.second - range.first
    IN  IF range.first > Len(input)
        THEN StdThrown("std::out_of_range", input, range.second)
        ELSE IF len > 2 \/ len <= 0
        THEN Thrown("Too many or no chars were given", input, range.second)
        ELSE IF len = 2
        THEN (IF ~IsEscaping(input, range.first)
              THEN Thrown("Too many chars were given", input, range.second)
              ELSE Parsed(At(input, range.first + 1), input, range.second))
        ELSE IF IsReservedChar(At(input, range.first))
        THEN Thrown(s_ErrMsgReserved, input, range.second)
        ELSE Parsed(At(input, range.first), input, range.second)

\* ArgumentParser<T>(input, start) for the type T.
ParseArg(T, input, start) ==
    IF T = "int" THEN ParseInt(input, start)
    ELSE IF T = "String" THEN ParseString(input, start)
    ELSE IF T \in CharTypes THEN ParseChar(T, input, start)
    ELSE ParseVector(T[2], input, start)

\* Arg<T>::Parse
ArgParse(T, input, start) ==
    IF NextPoi(input, start).first = End(input)
    THEN Thrown("Not enough arguments were given", input, start)
    ELSE ParseArg(T, input, start)

\* Arg<NULL_ARGUMENT>::Parse
NullArgParse(input, start) ==
    LET range == NextPoi(input, start)
    IN  IF range.first # End(input)
        THEN Thrown("Too many arguments were given", input, range.second)
        ELSE Parsed(<<>>, input, range.second)

(***************************************************************************)
(* System: the registry of commands, the item log, the command history    *)
(***************************************************************************)

s_Set == <<"s","e","t">>

s_Get == <<"g","e","t">>

s_Help == <<"h","e","l","p">>

s_ErrorNoVar == "No variable provided"

s_ErrorSetGetNotFound ==
    "Command doesn't exist and/or variable is not registered"

\* csys::endl
endl == "\n"

\* An Item: its type and m_Data, the text as the sequence of the pieces that
\* were appended (a piece is a fixed text or a string of characters).  The
\* time stamp is left out.
Item(type, data) == [m_Type |-> type, m_Data |-> data]

\* CommandHistory's default capacity.
m_MaxRecord == 100

\* CommandHistory::CommandHistory: m_History has maxRecord slots, all
\* empty; it is kept as the function from the slots written so far.
CommandHistory(maxRecord) ==
    [m_Record |-> 0, m_MaxRecord |-> maxRecord, m_History |-> <<>>]

\* System::m_CommandHistory, constructed with the default capacity.
NewHistory == CommandHistory(m_MaxRecord)

\* CommandHistory::PushBack
PushBack(h, l) ==
    [h EXCEPT !.m_Record  = @ + 1,
              !.m_History = ((h.m_Record % h.m_MaxRecord) :> l) @@ @]

\* m_History[index] for a slot of the vector; a slot never written holds
\* the empty string.
Slot(h, index) ==
    IF index \in DOMAIN h.m_History THEN h.m_History[index] ELSE <<>>

\* CommandHistory::GetNewIndex.  m_Record is unsigned: for m_Record = 0
\* the index is (2^32 - 1) % m_MaxRecord.
GetNewIndex(h) ==
    IF h.m_Record = 0
    THEN ((2^16 % h.m_MaxRecord) * (2^16 % h.m_MaxRecord) + h.m_MaxRecord - 1)
            % h.m_MaxRecord
    ELSE (h.m_Record - 1) % h.m_MaxRecord

\* CommandHistory::GetNew
GetNew(h) == Slot(h, GetNewIndex(h))

\* CommandHistory::GetOldIndex
GetOldIndex(h) ==
    IF h.m_Record <= h.m_MaxRecord THEN 0 ELSE h.m_Record % h.m_MaxRecord

\* GetOld reading the front slot whatever was overwritten.
GetOldFront(h) == Slot(h, 0)

\* CommandHistory::GetOld
GetOld(h) ==
    IF h.m_Record <= h.m_MaxRecord THEN Slot(h, 0)
    ELSE Slot(h, h.m_Record % h.m_MaxRecord)

\* CommandHistory::Clear
Clear(h) == [h EXCEPT !.m_Record = 0]

\* CommandHistory::Size
HistorySize(h) == IF h.m_Record < h.m_MaxRecord THEN h.m_Record ELSE h.m_MaxRecord


\* A default constructed AutoComplete.
EmptyTree == [heap |-> <<>>, root |-> nullptr, size |-> 0, count |-> 0]

\* A Command: its name, the types of its Arg<T>s and the callback, which is
\* one of the host ("host"), the lambda of System::System ("help") or the
\* lambda of RegisterCommand for command_name ("help of").
Command(name, args, fn, of) ==
    [m_Name |-> name, m_Arguments |-> args, m_Function |-> fn, of |-> of]

\* The members of System that registration touches.
SystemOf(commands, cmdTree, varTree, log, suggestion) ==
    [m_Commands |-> commands, m_CommandSuggestionTree |-> cmdTree,
     m_VariableSuggestionTree |-> varTree, m_ItemLog |-> log,
     m_RegisterCommandSuggestion |-> suggestion,
     thrown |-> FALSE]

\* RegisterCommand without the check for a command that exists.
RegisterCommandInOverwriting(sys, name, args, fn) ==
    LET range        == NextPoi(name, 0)
        command_name == Substr(name, range.first, range.second - range.first)
        help_name    == s_Help \o <<" ">> \o command_name
    IN  IF range.first = End(name)
        THEN [sys EXCEPT !.m_ItemLog =
                Append(@, Item("ERROR", <<"Empty command name given", endl>>))]
        ELSE IF NextPoi(name, range.second).first # End(name)
        THEN [sys EXCEPT !.thrown = TRUE]
        ELSE [sys EXCEPT
                !.m_CommandSuggestionTree =
                    IF sys.m_RegisterCommandSuggestion
                    THEN InsertWord(@, command_name) ELSE @,
                !.m_VariableSuggestionTree =
                    IF sys.m_RegisterCommandSuggestion
                    THEN InsertWord(@, command_name) ELSE @,
                !.m_Commands =
                    (help_name :> Command(help_name, <<>>, "help of", command_name))
                    @@ (name :> Command(name, args, fn, <<>>))
                    @@ @]

\* System::RegisterCommand; thrown tells that it left by an exception.
RegisterCommandIn(sys, name, args, fn) ==
    LET range        == NextPoi(name, 0)
        command_name == Substr(name, range.first, range.second - range.first)
        help_name    == s_Help \o <<" ">> \o command_name
    IN  IF name \in DOMAIN sys.m_Commands
        THEN [sys EXCEPT !.thrown = TRUE]
        ELSE IF range.first = End(name)
        THEN [sys EXCEPT !.m_ItemLog =
                Append(@, Item("ERROR", <<"Empty command name given", endl>>))]
        ELSE IF NextPoi(name, range.second).first # End(name)
        THEN [sys EXCEPT !.thrown = TRUE]
        ELSE [sys EXCEPT
                !.m_CommandSuggestionTree =
                    IF sys.m_RegisterCommandSuggestion
                    THEN InsertWord(@, command_name) ELSE @,
                !.m_VariableSuggestionTree =
                    IF sys.m_RegisterCommandSuggestion
                    THEN InsertWord(@, command_name) ELSE @,
                !.m_Commands =
                    (help_name :> Command(help_name, <<>>, "help of", command_name))
                    @@ (name :> Command(name, args, fn, <<>>))
                    @@ @]

\* System::System
NewSystem ==
    LET sys == RegisterCommandIn(
                   SystemOf(<<>>, EmptyTree, EmptyTree, <<>>, TRUE),
                   s_Help, <<>>, "help")
    IN  [sys EXCEPT !.m_CommandSuggestionTree =
                        InsertWord(InsertWord(@, s_Set), s_Get)]

\* System::RegisterVariable(name, var, args...) with RegisterVariableAux.
\* substr throws std::out_of_range for a name without a word, whose
\* range.first is past the end.
RegisterVariableIn(sys, name, T) ==
    LET range    == NextPoi(name, 0)
        var_name == Substr(name, range.first, range.second - range.first)
        get_name == s_Get \o <<" ">> \o var_name
        set_name == s_Set \o <<" ">> \o var_name
        disabled == [sys EXCEPT !.m_RegisterCommandSuggestion = FALSE]
    IN  IF NextPoi(name, range.second).first # End(name) \/ range.first > Len(name)
        THEN [disabled EXCEPT !.thrown = TRUE]
        ELSE [sys EXCEPT
                !.m_RegisterCommandSuggestion = TRUE,
                !.m_VariableSuggestionTree = InsertWord(@, var_name),
                !.m_Commands =
                    (set_name :> Command(set_name, <<T>>, "set", <<>>))
                    @@ (get_name :> Command(get_name, <<>>, "get", <<>>))
                    @@ @]

\* m_Commands.erase of the entries with the keys K.
Erase(commands, K) == [k \in DOMAIN commands \ K |-> commands[k]]

\* AutoComplete::Remove on a member tree.
RemoveFrom(tree, word) ==
    [tree EXCEPT !.heap = RemoveWord(tree.heap, tree.root, word)]

\* System::UnregisterCommand
UnregisterCommandIn(sys, cmd_name) ==
    LET help_name == s_Help \o <<" ">> \o cmd_name
    IN  IF cmd_name = <<>> THEN sys
        ELSE IF cmd_name \in DOMAIN sys.m_Commands
                /\ help_name \in DOMAIN sys.m_Commands
        THEN [sys EXCEPT
                !.m_CommandSuggestionTree = RemoveFrom(@, cmd_name),
                !.m_VariableSuggestionTree = RemoveFrom(@, cmd_name),
                !.m_Commands = Erase(@, {cmd_name, help_name})]
        ELSE sys

\* System::UnregisterVariable
UnregisterVariableIn(sys, var_name) ==
    LET set_name == s_Set \o <<" ">> \o var_name
        get_name == s_Get \o <<" ">> \o var_name
    IN  IF var_name = <<>> THEN sys
        ELSE IF set_name \in DOMAIN sys.m_Commands
                /\ get_name \in DOMAIN sys.m_Commands
        THEN [sys EXCEPT
                !.m_VariableSuggestionTree = RemoveFrom(@, var_name),
                !.m_Commands = Erase(@, {set_name, get_name})]
        ELSE sys

\* One Arg::Parse of a command invocation: the position in m_Arguments, the
\* cursor it was called with and what it left.
ArgCall(cmd, i, T, from, r) ==
    [op |-> IF T = "NULL_ARGUMENT" THEN "NULL_ARGUMENT" ELSE "Arg::Parse",
     cmd |-> cmd, index |-> i, type |-> T, from |-> from,
     status |-> r.status, value |-> r.value, start |-> r.start,
     err |-> r.err]

\* ParseArguments with every argument parsed from the start of the input.
RECURSIVE ParseArgumentsFromZero(_, _, _, _, _)
ParseArgumentsFromZero(cmd, i, input, start, trace) ==
    IF i > Len(cmd.m_Arguments)
    THEN LET r == NullArgParse(input, start)
         IN  [input |-> r.input, start |-> r.start,
              trace |-> Append(trace, ArgCall(cmd.m_Name, i, "NULL_ARGUMENT", start, r))]
    ELSE The({ LET t == Append(trace, ArgCall(cmd.m_Name, i, cmd.m_Arguments[i], start, r))
               IN  IF r.status # "ok"
                   THEN [input |-> r.input, start |-> r.start, trace |-> t]
                   ELSE ParseArgumentsFromZero(cmd, i + 1, r.input, r.start, t)
               : r \in {ArgParse(cmd.m_Arguments[i], input, 0)} })

\* The braced list of Command::Call: std::get<i>(m_Arguments).Parse(input,
\* start) for i = 0 .. sizeof...(Args), left to right, the last of them the
\* Arg<NULL_ARGUMENT>; an exception ends it.
RECURSIVE ParseArguments(_, _, _, _, _)
ParseArguments(cmd, i, input, start, trace) ==
    IF i > Len(cmd.m_Arguments)
    THEN LET r == NullArgParse(input, start)
         IN  [input |-> r.input, start |-> r.start,
              trace |-> Append(trace, ArgCall(cmd.m_Name, i, "NULL_ARGUMENT", start, r))]
    ELSE The({ LET t == Append(trace, ArgCall(cmd.m_Name, i, cmd.m_Arguments[i], start, r))
               IN  IF r.status # "ok"
                   THEN [input |-> r.input, start |-> r.start, trace |-> t]
                   ELSE ParseArguments(cmd, i + 1, r.input, r.start, t)
               : r \in {ArgParse(cmd.m_Arguments[i], input, start)} })

\* The item of the catch block without the name of the command.
ErrorItemWithoutName(cmd, r) == Item("ERROR", << <<>>, ": ", r.err >>)

\* Item(ERROR) << (m_Name.m_String + ": " + ae.what()); what() is the
\* message, followed by the offending text between quotes.
ErrorItem(cmd, r) == Item("ERROR", <<cmd.m_Name, ": ", r.err>>)

\* Command::operator() (the primary template and the specialization for no
\* arguments): the parses made, the returned Item, and the values m_Function
\* was called with if it was called.
CommandOperator(cmd, input) ==
    The({ LET last == p.trace[Len(p.trace)]
          IN  [trace   |-> p.trace,
               input   |-> p.input,
               start   |-> p.start,
               invoked |-> last.status = "ok",
               values  |-> [i \in 1..Len(cmd.m_Arguments) |->
                              IF i <= Len(p.trace) THEN p.trace[i].value
                              ELSE <<>>],
               item    |-> IF last.status = "ok" THEN Item("NONE", <<>>)
                           ELSE IF last.status = "ParseError"
                           THEN ErrorItem(cmd, last)
                           ELSE Item("NONE", <<>>),
               escaped |-> last.status \notin {"ok", "ParseError"}]
          : p \in {ParseArguments(cmd, 1, input, 0, <<>>)} })

\* CommandBase::Help
Help(cmd) == <<"Help", cmd.m_Name>>

\* The keys the help command lists.
Listed(commands) ==
    { k \in DOMAIN commands :
        /\ ~(Len(k) >= 5 /\ (At(k, 3) = " " \/ At(k, 4) = " "))
        /\ k # s_Help }

\* The orders in which an unordered_map may enumerate the keys S.
Orders(S) ==
    { f \in [1..Cardinality(S) -> S] :
        \A i, j \in 1..Cardinality(S) : f[i] = f[j] => i = j }

\* The items that m_Function of cmd logs; order is the order in which the
\* commands are enumerated.
CallbackItems(commands, cmd, order) ==
    IF cmd.m_Function = "help"
    THEN << Item("LOG", <<"help [command_name:String] (Optional)", endl>>),
            Item("LOG", <<"set [variable_name:String] [data]", endl>>),
            Item("LOG", <<"get [variable_name:String]", endl>>) >>
         \o [i \in 1..Len(order) |-> Item("LOG", Help(commands[order[i]]))]
    ELSE IF cmd.m_Function = "help of"
    THEN << Item("LOG", Help(commands[cmd.of]) \o <<endl>>) >>
    ELSE <<>>

\* The entry m_Commands[key] makes for a key that is not in the map: a null
\* unique_ptr.
NullCommand(key) == Command(key, <<>>, "null", <<>>)

\* The callback of "help <name>" looks up m_Commands[command_name]; the key
\* is missing when the command was stored under another key.
Dangling(commands, cmd) ==
    cmd.m_Function = "help of" /\ cmd.of \notin DOMAIN commands

\* The places of an enumeration of the commands that hold a null pointer.
NullsIn(commands, order) ==
    { i \in 1..Len(order) : commands[order[i]].m_Function = "null" }

\* What the call of m_Function of cmd may log.  A call of Help() through a
\* null pointer is undefined: Log(LOG) has made its item by then, and the
\* call either ends there or goes on with some text.
CallbackOutcomes(commands, cmd, order) ==
    IF Dangling(commands, cmd)
    THEN { << Item("LOG", <<>>) >>, << Item("LOG", <<"?", endl>>) >> }
    ELSE IF cmd.m_Function = "help" /\ NullsIn(commands, order) # {}
    THEN { SubSeq(CallbackItems(commands, cmd, order), 1,
                  3 + SetMin(NullsIn(commands, order)) - 1)
              \o << Item("LOG", rest) >> : rest \in { <<>>, <<"?">> } }
    ELSE { CallbackItems(commands, cmd, order) }

\* What (*command->second)(arguments) may return when the pointer is null,
\* which is undefined: nothing, or some item.
NullCallOutcomes == { <<>>, << Item("ERROR", <<"?">>) >> }

\* The command name System::ParseCommandLine looks up for the line, and the
\* range of the last token read for it.
Dispatch(l) ==
    LET range   == NextPoi(l, 0)
        name    == Substr(l, range.first, range.second - range.first)
        is_set  == name = s_Set
        is_get  == name = s_Get
        is_help == ~(is_set \/ is_get) /\ name = s_Help
        next    == NextPoi(l, range.second)
        word    == Substr(l, next.first, next.second - next.first)
    IN  IF is_help
        THEN [novar |-> FALSE, range |-> next,
              command_name |-> IF next.first # End(l)
                               THEN name \o <<" ">> \o word ELSE name]
        ELSE IF is_set \/ is_get
        THEN [novar |-> next.first = End(l), range |-> next,
              command_name |-> name \o <<" ">> \o word]
        ELSE [novar |-> FALSE, range |-> range, command_name |-> name]

SysInit ==
    /\ m_Commands = NewSystem.m_Commands
    /\ m_CommandSuggestionTree = NewSystem.m_CommandSuggestionTree
    /\ m_VariableSuggestionTree = NewSystem.m_VariableSuggestionTree
    /\ m_ItemLog = NewSystem.m_ItemLog
    /\ m_CommandHistory = NewHistory
    /\ calls = <<>>
    /\ m_RegisterCommandSuggestion = NewSystem.m_RegisterCommandSuggestion
    /\ m_Scripts = <<>>
    /\ m_HistoryIndex = 0
    /\ m_Buffer = <<>>
    /\ frames = <<>>

(***************************************************************************)
(* The AutoComplete index as a state machine                               *)
(***************************************************************************)

\* op and arg name the call; found is Search's result (for Remove: whether
\* the word was stored when Remove was called); prefix and options are what
\* Suggestions left in its two reference parameters.
\* AutoComplete() = default, with the default member initializers.
Default == [m_Root |-> nullptr, m_Size |-> 0, m_Count |-> 0]

NoCall == [op |-> "none", arg |-> <<>>, found |-> FALSE,
           prefix |-> <<>>, options |-> <<>>]

ACInit ==
    /\ heap = <<>>
    /\ m_Root = nullptr
    /\ m_Size = 0
    /\ m_Count = 0
    /\ acOut = NoCall
    /\ rhs = Default

\* No argument is being parsed.
ArgIdle ==
    /\ line = <<>>
    /\ inputBuf = <<>>
    /\ cursor = 0
    /\ out = <<>>

Insert(word) ==
    /\ m_Count < MaxCount
    /\ LET s == InsertWord([heap |-> heap, root |-> m_Root,
                            size |-> m_Size, count |-> m_Count], word)
       IN  /\ heap' = s.heap
           /\ m_Root' = s.root
           /\ m_Size' = s.size
           /\ m_Count' = s.count
    /\ acOut' = [NoCall EXCEPT !.op = "Insert", !.arg = word]
    /\ UNCHANGED <<rhs, argVars, sysVars>>

Remove(word) ==
    /\ heap' = RemoveWord(heap, m_Root, word)
    /\ acOut' = [NoCall EXCEPT !.op = "Remove", !.arg = word,
                               !.found = Search(heap, m_Root, word)]
    /\ UNCHANGED <<m_Root, m_Size, m_Count, rhs>>
    /\ UNCHANGED <<argVars, sysVars>>

SearchCall(word) ==
    /\ acOut' = [NoCall EXCEPT !.op = "Search", !.arg = word,
                               !.found = Search(heap, m_Root, word)]
    /\ UNCHANGED <<heap, m_Root, m_Size, m_Count, rhs>>
    /\ UNCHANGED <<argVars, sysVars>>

SuggestionsCall(prefix) ==
    /\ LET r == Suggestions(heap, m_Root, prefix, FALSE)
       IN  acOut' = [NoCall EXCEPT !.op = "Suggestions", !.arg = prefix,
                                   !.prefix = r.prefix, !.options = r.options]
    /\ UNCHANGED <<heap, m_Root, m_Size, m_Count, rhs>>
    /\ UNCHANGED <<argVars, sysVars>>

PartialCompleteCall(prefix) ==
    /\ LET r == Suggestions(heap, m_Root, prefix, TRUE)
       IN  acOut' = [NoCall EXCEPT !.op = "PartialComplete", !.arg = prefix,
                                   !.prefix = r.prefix, !.options = r.options]
    /\ UNCHANGED <<heap, m_Root, m_Size, m_Count, rhs>>
    /\ UNCHANGED <<argVars, sysVars>>

Init == ACInit /\ ArgIdle /\ SysInit

Next ==
    \/ \E w \in Dict : Insert(w)
    \/ \E w \in Dict : Remove(w)
    \/ \E w \in Probes : SearchCall(w)
    \/ \E p \in Probes : SuggestionsCall(p)
    \/ \E p \in Probes : PartialCompleteCall(p)

Spec == Init /\ [][Next]_vars

(***************************************************************************)
(* Properties of the AutoComplete index                                    *)
(***************************************************************************)

Range(seq) == { seq[i] : i \in 1..Len(seq) }

\* The words Search finds in the tree.
StoredIn(h, root) == { w \in Probes : Search(h, root, w) }

StoredWords == StoredIn(heap, m_Root)

\* C1: a Remove(w) step leaves Search(w) false and the result of Search
\* unchanged for every other word.
C1_RemoveOnlyRemovesItsWord ==
    [][acOut'.op = "Remove" =>
         /\ ~Search(heap', m_Root', acOut'.arg)
         /\ \A v \in Probes \ {acOut'.arg} :
               Search(heap', m_Root', v) = Search(heap, m_Root, v)]_vars

\* A stored word was removed while a word extending it, a prefix of it and a
\* sibling of it stay stored.
C1_Witness ==
    /\ acOut.op = "Remove" /\ acOut.found
    /\ acOut.arg = <<"s","e","t">>
    /\ StoredWords = { <<"s","e">>, <<"s","e","t","x">> }

C1_WitnessSibling ==
    /\ acOut.op = "Remove" /\ acOut.found
    /\ acOut.arg = <<"s","e","t","x">>
    /\ <<"s","e","t","t">> \in StoredWords

\* C2: Count() is the number of distinct words Search finds.
C2_CountIsNumberOfWords == Count = Cardinality(StoredWords)

\* C3: Suggestions(prefix) returns nothing when the prefix is a stored word
\* (or matches no path) and otherwise every stored word the prefix is a proper
\* prefix of, each once.
C3_SuggestionsAreTheExtensions ==
    acOut.op = "Suggestions" =>
        LET expected == IF acOut.arg \in StoredWords THEN {}
                        ELSE { w \in StoredWords :
                                 IsPrefixOf(acOut.arg, w) /\ w # acOut.arg }
        IN  /\ Range(acOut.options) = expected
            /\ Len(acOut.options) = Cardinality(expected)

C3_Witness ==
    /\ acOut.op = "Suggestions"
    /\ acOut.arg = <<"s","e">>
    /\ Range(acOut.options) =
          { <<"s","e","t">>, <<"s","e","t","x">>, <<"s","e","t","t">> }

SetWords == { <<"s","e","t">>, <<"s","e","t","x">>, <<"s","e","t","t">> }

PartialOfSWithSetWords ==
    /\ acOut.op = "PartialComplete"
    /\ acOut.arg = <<"s">>
    /\ StoredWords = SetWords

\* C4 as stated: with set, setx and sett stored, partial completion of "s"
\* gives "se".
C4_PartialOfSIsSe == PartialOfSWithSetWords => acOut.prefix = <<"s","e">>

\* C4: with set, setx and sett stored, partial completion of "s" gives "set",
\* the longest common prefix of the three words.
C4_PartialOfSIsSet == PartialOfSWithSetWords => acOut.prefix = <<"s","e","t">>

C4_Witness == PartialOfSWithSetWords /\ m_Count = Cardinality(SetWords)

\* C5: the partially completed prefix extends the given prefix and is a prefix
\* of every stored word that starts with the given prefix.
C5_PartialIsCommonPrefix ==
    (acOut.op = "PartialComplete"
        /\ FindPrefix(heap, m_Root, acOut.arg, 1) # nullptr) =>
        /\ IsPrefixOf(acOut.arg, acOut.prefix)
        /\ \A w \in StoredWords :
              IsPrefixOf(acOut.arg, w) => IsPrefixOf(acOut.prefix, w)

(***************************************************************************)
(* The argument parsers applied to a line                                  *)
(***************************************************************************)

\* The strings over the characters A of length at most n.
Strings(A, n) == UNION { [1..k -> A] : k \in 0..n }

VecAlphabet == { "[", "]", " ", "1", "2" }

\* The longest line that is tried with every content.
MaxVecLen == 5

VecExamples ==
    { <<"[","1"," ","2"," ","3","]">>,
      <<"[","1"," ","2"," ","3","]"," ","4">>,
      <<"[","[","1"," ","2","]"," ","[","3","]","]">>,
      <<"[","[","1"," ","2","]"," ","[","3","]","]"," ","4">>,
      <<"[","[","1"," ","2","]","[","3","]","]"," "," ","4","2">>,
      <<"[","[","1"," ","2","]"," ","[","3","]">>,
      <<" ","[","[","]"," ","[","2","1","]"," ","]"," ","7">> }

VecLines == Strings(VecAlphabet, MaxVecLen) \cup VecExamples

VecTypes == { VectorOf("int"), VectorOf(VectorOf("int")) }

\* One parser call and what it left: the status, m_Value, start, the message.
Call(op, T, r) ==
    [op |-> op, type |-> T, status |-> r.status, value |-> r.value,
     start |-> r.start, err |-> r.err]

ArgInit(lines) ==
    /\ line \in lines
    /\ inputBuf = line
    /\ cursor = 0
    /\ out = <<>>

\* ArgumentParser<std::vector<...>>(input, start) on a fresh line.
VectorParserCall(T) ==
    /\ out = <<>>
    /\ LET r == ParseVector(T[2], inputBuf, cursor)
       IN  /\ inputBuf' = r.input
           /\ cursor' = r.start
           /\ out' = <<Call("vector", T, r)>>
    /\ UNCHANGED <<line, acVars, sysVars>>

\* Arg<int>::Parse for the argument that follows the one parsed first.
NextArgCall ==
    /\ Len(out) = 1
    /\ out[1].status = "ok"
    /\ LET r == ArgParse("int", inputBuf, cursor)
       IN  /\ inputBuf' = r.input
           /\ cursor' = r.start
           /\ out' = Append(out, Call("next", "int", r))
    /\ UNCHANGED <<line, acVars, sysVars>>

VecInit == ACInit /\ ArgInit(VecLines) /\ SysInit

VecNext ==
    \/ \E T \in VecTypes : VectorParserCall(T)
    \/ NextArgCall

VecSpec == VecInit /\ [][VecNext]_vars

(***************************************************************************)
(* Properties of the vector parser                                         *)
(***************************************************************************)

RECURSIVE Depth(_)
Depth(T) == IF T = "int" THEN 0 ELSE 1 + Depth(T[2])

\* The first position from p on that holds no whitespace (or the length).
RECURSIVE SkipWs(_, _)
SkipWs(s, p) == IF p < Len(s) /\ IsSpace(At(s, p)) THEN SkipWs(s, p + 1) ELSE p

RECURSIVE DigitsEnd(_, _)
DigitsEnd(s, p) == IF p < Len(s) /\ IsDigit(At(s, p)) THEN DigitsEnd(s, p + 1) ELSE p

Number(s, p, e) == DecimalValue(Substr(s, p, e - p), e - p)

\* The whitespace-separated tokens of s from position p on.
RECURSIVE TokensFrom(_, _)
TokensFrom(s, p) ==
    LET q == SkipWs(s, p)
        e == CHOOSE x \in q..Len(s) :
                /\ x = Len(s) \/ IsSpace(At(s, x))
                /\ \A y \in q..(x - 1) : ~IsSpace(At(s, y))
    IN  IF q >= Len(s) THEN <<>>
        ELSE <<Substr(s, q, e - q)>> \o TokensFrom(s, e)

AllDigits(tok) == tok # <<>> /\ \A i \in 1..Len(tok) : IsDigit(tok[i])

\* The bracketed literal of nesting depth d that opens at p, read by a plain
\* recursive descent: ok with its value and the position after its closing
\* bracket, unclosed when the text ends inside it, bad otherwise.
RefResult(st, value, next) == [st |-> st, value |-> value, next |-> next]

RECURSIVE RefElems(_, _, _, _)
RefElems(d, s, p, acc) ==
    LET q == SkipWs(s, p)
    IN  IF q >= Len(s) THEN RefResult("unclosed", <<>>, q)
        ELSE IF At(s, q) = "]" THEN RefResult("ok", acc, q + 1)
        ELSE IF d = 1
        THEN LET e == DigitsEnd(s, q)
             IN  IF e = q \/ (e < Len(s) /\ At(s, e) = "[")
                 THEN RefResult("bad", <<>>, q)
                 ELSE RefElems(d, s, e, Append(acc, Number(s, q, e)))
        ELSE IF At(s, q) = "["
        THEN LET r == RefElems(d - 1, s, q + 1, <<>>)
             IN  IF r.st # "ok" THEN r
                 ELSE RefElems(d, s, r.next, Append(acc, r.value))
        ELSE RefResult("bad", <<>>, q)

RefVector(T, s) ==
    LET p == SkipWs(s, 0)
    IN  IF p < Len(s) /\ At(s, p) = "["
        THEN RefElems(Depth(T), s, p + 1, <<>>)
        ELSE RefResult("bad", <<>>, p)

\* A well-formed literal of type T, followed by nothing or, after whitespace,
\* by one token of digits.
WellFormedVectorLine(s, T) ==
    LET r == RefVector(T, s)
        rest == TokensFrom(s, r.next)
    IN  /\ r.st = "ok"
        /\ r.next = Len(s) \/ IsSpace(At(s, r.next))
        /\ Len(rest) <= 1
        /\ \A i \in 1..Len(rest) : AllDigits(rest[i])

\* A literal of type T whose opening bracket, or one inside it, is not closed.
UnclosedVectorLine(s, T) == RefVector(T, s).st = "unclosed"

VectorCalled == out # <<>> /\ out[1].op = "vector"

\* C6: a well-formed literal of the declared depth parses to its elements in
\* textual order and nesting, the cursor is left after its closing bracket
\* with only whitespace skipped, and the argument that follows is parsed next.
C6_WellFormedVectorParses ==
    (VectorCalled /\ WellFormedVectorLine(line, out[1].type)) =>
        LET ref  == RefVector(out[1].type, line)
            rest == TokensFrom(line, ref.next)
        IN  /\ out[1].status = "ok"
            /\ out[1].value = ref.value
            /\ out[1].start >= ref.next
            /\ \A p \in ref.next..(out[1].start - 1) :
                  p < Len(line) => IsSpace(At(line, p))
            /\ Len(out) = 2 =>
                  IF rest = <<>> THEN out[2].status = "ParseError"
                  ELSE /\ out[2].status = "ok"
                       /\ out[2].value = Number(rest[1], 0, Len(rest[1]))

C6_Witness ==
    /\ Len(out) = 2
    /\ line = <<"[","[","1"," ","2","]"," ","[","3","]","]"," ","4">>
    /\ out[1].value = << <<1, 2>>, <<3>> >>
    /\ out[2].value = 4

\* C7: a literal with an unclosed bracket, at any level, is a ParseError
\* that mentions the missing closing ].
C7_UnclosedVectorIsParseError ==
    (VectorCalled /\ UnclosedVectorLine(line, out[1].type)) =>
        /\ out[1].status = "ParseError"
        /\ out[1].err = "Invalid vector argument missing closing ]"

(***************************************************************************)
(* The String parser applied to a line                                     *)
(***************************************************************************)

StrAlphabet == { "\"", "\\", "a", " ", "[" }

\* The longest line that is tried with every content.
MaxStrLen == 6

StrExamples ==
    { <<"\"","a","\\","\"","b","\"">>,
      <<"\"","a","\\","\"","b","\""," ","c">>,
      <<" ","\"","a"," ","\\","]","\\","\\","\""," ","\"","c","\"">> }

StrLines == Strings(StrAlphabet, MaxStrLen) \cup StrExamples

\* Arg<csys::String>::Parse on a fresh line.
StringParserCall ==
    /\ out = <<>>
    /\ LET r == ArgParse("String", inputBuf, cursor)
       IN  /\ inputBuf' = r.input
           /\ cursor' = r.start
           /\ out' = <<Call("String", "String", r)>>
    /\ UNCHANGED <<line, acVars, sysVars>>

StrInit == ACInit /\ ArgInit(StrLines) /\ SysInit

StrNext == StringParserCall

StrSpec == StrInit /\ [][StrNext]_vars

(***************************************************************************)
(* Properties of the String parser                                         *)
(***************************************************************************)

\* The number of escape markers that stand immediately before position p.
RECURSIVE MarkersBefore(_, _)
MarkersBefore(s, p) ==
    IF p > 0 /\ At(s, p - 1) = "\\" THEN 1 + MarkersBefore(s, p - 1) ELSE 0

\* The quotes after the opening quote at o that an even number of escape
\* markers precede.
ClosingQuotes(s, o) ==
    { p \in (o + 1)..(Len(s) - 1) :
        At(s, p) = "\"" /\ MarkersBefore(s, p) % 2 = 0 }

\* s[i, e) with every pair of escape marker and reserved character replaced
\* by the reserved character.
RECURSIVE Unescaped(_, _, _)
Unescaped(s, i, e) ==
    IF i >= e THEN <<>>
    ELSE IF At(s, i) = "\\" /\ i + 1 < e /\ At(s, i + 1) \in s_Reserved
    THEN <<At(s, i + 1)>> \o Unescaped(s, i + 2, e)
    ELSE <<At(s, i)>> \o Unescaped(s, i + 1, e)

\* s[i, e) holds a reserved character that belongs to no such pair.
RECURSIVE HasBareReserved(_, _, _)
HasBareReserved(s, i, e) ==
    IF i >= e THEN FALSE
    ELSE IF At(s, i) = "\\" /\ i + 1 < e /\ At(s, i + 1) \in s_Reserved
    THEN HasBareReserved(s, i + 2, e)
    ELSE At(s, i) \in s_Reserved \/ HasBareReserved(s, i + 1, e)

OpeningQuote(s) == SkipWs(s, 0)

\* The first token of the line starts with a quote that is closed later.
QuotedLine(s) ==
    /\ OpeningQuote(s) < Len(s)
    /\ At(s, OpeningQuote(s)) = "\""
    /\ ClosingQuotes(s, OpeningQuote(s)) # {}

ClosingQuote(s) == SetMin(ClosingQuotes(s, OpeningQuote(s)))

StringCalled == out # <<>> /\ out[1].op = "String"

QuotedStringParsed ==
    /\ out[1].status = "ok"
    /\ out[1].value =
          Unescaped(line, OpeningQuote(line) + 1, ClosingQuote(line))
    /\ out[1].start = ClosingQuote(line) + 1

\* C8 as stated: a quoted String argument is consumed up to the first later
\* quote preceded by an even number of escape markers, yields the enclosed
\* text with the escape pairs replaced, and leaves the cursor just past that
\* quote.
C8_QuotedStringUpToFirstClosingQuote ==
    (StringCalled /\ QuotedLine(line)) => QuotedStringParsed

\* C8: the same, for a closing quote that whitespace or the end of the input
\* follows and an enclosed text whose reserved characters are all escaped.
C8_QuotedStringEndingAtWhitespace ==
    (/\ StringCalled
     /\ QuotedLine(line)
     /\ \/ ClosingQuote(line) + 1 = Len(line)
        \/ IsSpace(At(line, ClosingQuote(line) + 1))
     /\ ~HasBareReserved(line, OpeningQuote(line) + 1, ClosingQuote(line)))
    => QuotedStringParsed

C8_Witness ==
    /\ StringCalled
    /\ line = <<"\"","a","\\","\"","b","\"">>
    /\ out[1].status = "ok"
    /\ out[1].value = <<"a","\"","b">>
    /\ out[1].start = 6

(***************************************************************************)
(* System as a state machine: commands are registered and lines are run    *)
(***************************************************************************)

\* The commands of the host: the name and the types of the parameters.
HostCommands ==
    { [name |-> <<"a","d","d">>, args |-> <<"int", "int">>],
      [name |-> <<"s","a","y">>, args |-> <<"String", "int">>],
      [name |-> <<"n","o","p">>, args |-> <<>>] }

\* The lines the host runs.
CmdLines ==
    { <<"a","d","d"," ","1"," ","2">>,
      <<"a","d","d"," ","1","2">>,
      <<"a","d","d"," ","1"," ","2"," ","3">>,
      <<"a","d","d"," ","1"," ","x">>,
      <<" "," ","a","d","d"," "," ","7"," "," "," ","5"," ">>,
      <<"s","a","y"," ","\"","a"," ","b","\""," ","3">>,
      <<"s","a","y"," ","\"","a"," ","3">>,
      <<"n","o","p">>,
      <<"n","o","p"," ","1">>,
      <<"f","o","o"," ","1">>,
      <<"h","e","l","p"," ","a","d","d">>,
      <<"h","e","l","p">>,
      <<" ">>,
      <<>> }

\* The number of lines that are run.
MaxRuns == 2

\* The lines logged as commands so far.
RunCount ==
    Cardinality({ i \in 1..Len(m_ItemLog) : m_ItemLog[i].m_Type = "COMMAND" })

\* System::RegisterCommand(name, description, function, args...)
RegisterCommand(c) ==
    /\ LET sys == RegisterCommandIn(
                      SystemOf(m_Commands, m_CommandSuggestionTree,
                               m_VariableSuggestionTree, m_ItemLog,
                               m_RegisterCommandSuggestion),
                      c.name, c.args, "host")
       IN  /\ m_Commands' = sys.m_Commands
           /\ m_CommandSuggestionTree' = sys.m_CommandSuggestionTree
           /\ m_VariableSuggestionTree' = sys.m_VariableSuggestionTree
           /\ m_ItemLog' = sys.m_ItemLog
    /\ UNCHANGED <<m_CommandHistory, calls, hostVars, acVars, argVars>>

\* The nesting of RunScript activations the stack has room for.
MaxDepth == 4

\* System::RunScript(script_name) up to its loop: what it logs and the stack
\* of activations with the new one on top, about to run line pc of the
\* script.  A script without lines is loaded again from its file, which is
\* taken to be as it was when the script was registered.  On a stack that
\* is full the call overflows it and the program ends there: the activation
\* is left at pc 0 and never runs.
RunScript(scripts, stack, script_name) ==
    IF script_name \notin DOMAIN scripts
    THEN [items  |-> << Item("ERROR", <<"Script \"", script_name,
                                        "\" not found", endl>>) >>,
          frames |-> stack]
    ELSE [items  |-> << Item("INFO", <<"Running \"", script_name, "\"", endl>>) >>,
          frames |-> Append(stack, [script |-> script_name,
                                    pc |-> IF Len(stack) < MaxDepth THEN 1 ELSE 0])]

\* System::RunCommand(line), with System::ParseCommandLine and the call of
\* the command, on the stack of RunScript activations it is called on.  The
\* callback of the run command is left when its RunScript has started: what
\* follows is the loop of that activation.
RunCommandLine(l, stack) ==
    /\ LET d      == Dispatch(l)
           blank  == NextPoi(l, 0).first = End(l)
           found  == ~blank /\ ~d.novar /\ d.command_name \in DOMAIN m_Commands
           logged == Append(m_ItemLog, Item("COMMAND", <<l, endl>>))
       IN  IF l = <<>>
           THEN /\ UNCHANGED <<argVars, m_Commands, m_CommandSuggestionTree,
                               m_VariableSuggestionTree, m_CommandHistory,
                               m_ItemLog, calls>>
                /\ frames' = stack
           ELSE
           /\ line' = l
           /\ UNCHANGED <<m_CommandSuggestionTree, m_VariableSuggestionTree>>
           /\ m_CommandHistory' =
                 IF blank THEN m_CommandHistory
                 ELSE PushBack(m_CommandHistory, l)
           /\ IF ~found
              THEN /\ inputBuf' = <<>>
                   /\ cursor' = 0
                   /\ out' = <<>>
                   /\ calls' = calls
                   /\ m_Commands' = m_Commands
                   /\ frames' = stack
                   /\ m_ItemLog' =
                         IF blank THEN logged
                         ELSE IF d.novar
                         THEN Append(logged, Item("ERROR", <<s_ErrorNoVar, endl>>))
                         ELSE Append(logged,
                                     Item("ERROR", <<s_ErrorSetGetNotFound, endl>>))
              ELSE IF m_Commands[d.command_name].m_Function = "null"
              THEN /\ inputBuf' = <<>>
                   /\ cursor' = 0
                   /\ out' = <<>>
                   /\ calls' = calls
                   /\ m_Commands' = m_Commands
                   /\ frames' = stack
                   /\ \E items \in NullCallOutcomes : m_ItemLog' = logged \o items
              ELSE \E cmd \in {m_Commands[d.command_name]} :
                   \E arguments \in {Substr(l, d.range.second,
                                            Len(l) - d.range.first)} :
                   \E res \in {CommandOperator(cmd, arguments)} :
                   /\ inputBuf' = res.input
                   /\ cursor' = res.start
                   /\ out' = res.trace
                   /\ m_Commands' =
                         IF res.invoked /\ Dangling(m_Commands, cmd)
                         THEN (cmd.of :> NullCommand(cmd.of)) @@ m_Commands
                         ELSE m_Commands
                   /\ calls' =
                         IF res.invoked
                         THEN Append(calls, [run |-> RunCount + 1,
                                             name |-> cmd.m_Name,
                                             args |-> res.values])
                         ELSE calls
                   /\ \E script \in (IF res.invoked /\ cmd.m_Function = "run"
                                     THEN {RunScript(m_Scripts, stack, res.values[1])}
                                     ELSE {[items |-> <<>>, frames |-> stack]}) :
                      \E order \in (IF res.invoked /\ cmd.m_Function = "help"
                                    THEN Orders(Listed(m_Commands))
                                    ELSE {<<>>}) :
                      \E items \in (IF res.invoked
                                    THEN CallbackOutcomes(m_Commands, cmd, order)
                                    ELSE {<<>>}) :
                         /\ frames' = script.frames
                         /\ m_ItemLog' = ((logged \o items) \o script.items)
                               \o (IF res.item.m_Type # "NONE"
                                   THEN <<res.item>> ELSE <<>>)
    /\ UNCHANGED acVars

\* RunCommand(line) called by the host.
RunCommand(l) ==
    /\ RunCount < MaxRuns
    /\ RunCommandLine(l, frames)
    /\ UNCHANGED <<m_RegisterCommandSuggestion, m_Scripts, m_HistoryIndex, m_Buffer>>

CmdInit == ACInit /\ ArgIdle /\ SysInit

CmdNext ==
    \/ \E c \in HostCommands : RegisterCommand(c)
    \/ \E l \in CmdLines : RunCommand(l)

CmdSpec == CmdInit /\ [][CmdNext]_vars

(***************************************************************************)
(* Properties of the command dispatch                                      *)
(***************************************************************************)

\* The last line run reached Command::operator().
CommandRan == out # <<>> /\ out[1].op \in {"Arg::Parse", "NULL_ARGUMENT"}

\* The callback invocations made by the last line run.
LastRunCalls == SelectSeq(calls, LAMBDA c : c.run = RunCount)

\* A token without reserved characters that is a number or holds no digit.
PlainToken(tok) ==
    /\ \A i \in 1..Len(tok) : tok[i] \notin s_Reserved
    /\ AllDigits(tok) \/ \A i \in 1..Len(tok) : ~IsDigit(tok[i])

Fits(T, tok) == IF T = "int" THEN AllDigits(tok) ELSE TRUE

TokenValue(T, tok) == IF T = "int" THEN Number(tok, 0, Len(tok)) ELSE tok

\* The line l names a command of the host in commands and gives it plain
\* tokens as arguments.
PlainHostLine(l, commands) ==
    LET toks == TokensFrom(l, 0)
    IN  /\ toks # <<>>
        /\ toks[1] \in DOMAIN commands
        /\ commands[toks[1]].m_Function = "host"
        /\ \A i \in 2..Len(toks) : PlainToken(toks[i])

\* Such a line gives as many tokens as the command has parameters, each
\* fitting the parameter's type.
ValidHostLine(l, commands) ==
    LET toks == TokensFrom(l, 0)
        args == commands[toks[1]].m_Arguments
    IN  /\ PlainHostLine(l, commands)
        /\ Len(toks) - 1 = Len(args)
        /\ \A i \in 1..Len(args) : Fits(args[i], toks[i + 1])

ExpectedCall(l, commands, run) ==
    LET toks == TokensFrom(l, 0)
        args == commands[toks[1]].m_Arguments
    IN  [run |-> run, name |-> toks[1],
         args |-> [i \in 1..Len(args) |-> TokenValue(args[i], toks[i + 1])]]

\* C9: a command with N parameters parses its N arguments left to right,
\* each from the cursor the one before left, then checks once that only
\* whitespace remains; the callback is invoked exactly once, the i-th value
\* bound to the i-th parameter, if and only if all of these succeed.
C9_ArgumentsInOrderThenCallback ==
    CommandRan =>
        LET cmd     == m_Commands[out[1].cmd]
            N       == Len(cmd.m_Arguments)
            success == Len(out) = N + 1 /\ out[N + 1].status = "ok"
        IN  /\ Len(out) <= N + 1
            /\ \A i \in 1..Len(out) :
                  /\ out[i].index = i
                  /\ out[i].from = (IF i = 1 THEN 0 ELSE out[i - 1].start)
                  /\ i <= N => /\ out[i].op = "Arg::Parse"
                               /\ out[i].type = cmd.m_Arguments[i]
                  /\ i = N + 1 => out[i].op = "NULL_ARGUMENT"
                  /\ i < Len(out) => out[i].status = "ok"
            /\ IF success
               THEN LastRunCalls =
                       << [run |-> RunCount, name |-> cmd.m_Name,
                           args |-> [i \in 1..N |-> out[i].value]] >>
               ELSE LastRunCalls = <<>>
            /\ PlainHostLine(line, m_Commands) =>
                  /\ success <=> ValidHostLine(line, m_Commands)
                  /\ success =>
                        LastRunCalls =
                           <<ExpectedCall(line, m_Commands, RunCount)>>

C9_Witness ==
    /\ CommandRan
    /\ line = <<"s","a","y"," ","\"","a"," ","b","\""," ","3">>
    /\ Len(out) = 3
    /\ out[2].from = 6
    /\ LastRunCalls = << [run |-> RunCount, name |-> <<"s","a","y">>,
                          args |-> << <<"a"," ","b">>, 3 >>] >>

RunStep == RunCount' = RunCount + 1

Failed(trace) == trace # <<>> /\ trace[Len(trace)].status # "ok"

\* An ERROR item of a command is in the log.
HadFailure ==
    \E i \in 1..Len(m_ItemLog) :
        /\ m_ItemLog[i].m_Type = "ERROR"
        /\ m_ItemLog[i].m_Data[2] = ": "

\* C10: when an argument of a command fails to parse, too few and too many
\* arguments included, the callback is not invoked, exactly one ERROR item
\* that begins with the command's name is appended to the log and the
\* registered commands are unchanged; a valid line run later still executes.
C10_FailedParseIsLoggedAndHarmless ==
    [][RunStep =>
         /\ (PlainHostLine(line', m_Commands) /\ ~ValidHostLine(line', m_Commands))
               => Failed(out')
         /\ Failed(out') =>
               /\ calls' = calls
               /\ Len(m_ItemLog') = Len(m_ItemLog) + 2
               /\ SubSeq(m_ItemLog', 1, Len(m_ItemLog)) = m_ItemLog
               /\ m_ItemLog'[Len(m_ItemLog) + 1] = Item("COMMAND", <<line', endl>>)
               /\ m_ItemLog'[Len(m_ItemLog) + 2].m_Type = "ERROR"
               /\ m_ItemLog'[Len(m_ItemLog) + 2].m_Data[1] = out'[1].cmd
               /\ IsPrefixOf(out'[1].cmd, SubSeq(line', SkipWs(line', 0) + 1, Len(line')))
               /\ m_Commands' = m_Commands
         /\ (HadFailure /\ ValidHostLine(line', m_Commands))
               => calls' = Append(calls, ExpectedCall(line', m_Commands, RunCount'))
      ]_vars

C10_Witness ==
    /\ RunCount = 2
    /\ Len(m_ItemLog) = 3
    /\ line = <<"a","d","d"," ","1"," ","2">>
    /\ m_ItemLog[1] = Item("COMMAND", <<<<"a","d","d"," ","1"," ","2"," ","3">>, endl>>)
    /\ m_ItemLog[2].m_Type = "ERROR"
    /\ m_ItemLog[2].m_Data[1] = <<"a","d","d">>
    /\ calls = << [run |-> 2, name |-> <<"a","d","d">>, args |-> <<1, 2>>] >>

-----------------------------------------------------------------------------
\* The integer parsers on one token.

NumAlphabet == {"-", "1", "9", "a"}

MaxNumLen == 3

NumExamples ==
    { <<"7", "0", "0", "0", "0">>,
      <<"4", "2", "9", "4", "9", "6", "7", "2", "9", "6">>,
      <<"-", "1">>,
      <<"2", "1", "4", "7", "4", "8", "3", "6", "4", "8">>,
      <<"-", "2", "1", "4", "7", "4", "8", "3", "6", "4", "9">>,
      <<"9", "2", "2", "3", "3", "7", "2", "0", "3", "6", "8", "5", "4", "7", "7", "5", "8", "0", "8">>,
      <<"-", "9", "2", "2", "3", "3", "7", "2", "0", "3", "6", "8", "5", "4", "7", "7", "5", "8", "0", "9">>,
      <<"1", "8", "4", "4", "6", "7", "4", "4", "0", "7", "3", "7", "0", "9", "5", "5", "1", "6", "1", "5">>,
      <<"1", "8", "4", "4", "6", "7", "4", "4", "0", "7", "3", "7", "0", "9", "5", "5", "1", "6", "1", "6">>,
      <<"1", "2", "a", "b", "c">>,
      <<"-", "3", "2", "7", "6", "8">>,
      <<"-", "3", "2", "7", "6", "9">>,
      <<"6", "5", "5", "3", "6">>,
      <<"+", "5">>,
      <<"a", "b", "c">>,
      <<"0", "0", "7">> }

NumLines == Strings(NumAlphabet, MaxNumLen) \cup NumExamples

\* ArgumentParser<TYPE>(input, start) on a fresh line, in a build whose long
\* has L bits.
NumberParserCall(T, L) ==
    /\ out = <<>>
    /\ \E r \in {ParseNumber(T, L, inputBuf, cursor)} :
           /\ inputBuf' = r.input
           /\ cursor' = r.start
           /\ out' = <<[op |-> "number", type |-> T, long |-> L,
                        status |-> r.status, value |-> r.value,
                        start |-> r.start, err |-> r.err]>>
    /\ UNCHANGED <<line, acVars, sysVars>>

NumInit == ACInit /\ ArgInit(NumLines) /\ SysInit

NumNext == \E T \in IntTypes : \E L \in LongBits : NumberParserCall(T, L)

NumSpec == NumInit /\ [][NumNext]_vars

NumberCalled == out # <<>> /\ out[1].op = "number"

\* The token is an optional sign and one or more digits, nothing else.
IsIntegerLiteral(tok) ==
    /\ tok # <<>>
    /\ LET from == IF IsSign(tok[1]) THEN 2 ELSE 1
       IN  /\ from <= Len(tok)
           /\ \A i \in from..Len(tok) : IsDigit(tok[i])

\* The digits of an integer literal from its first non-zero digit on, as
\* numbers.
Significant(tok) ==
    LET from == IF IsSign(tok[1]) THEN 2 ELSE 1
        nz   == { i \in from..Len(tok) : tok[i] # "0" }
    IN  IF nz = {} THEN <<>>
        ELSE LET f == CHOOSE i \in nz : \A j \in nz : i <= j
             IN  [i \in 1..(Len(tok) - f + 1) |-> DigitValue(tok[f + i - 1])]

\* a <= b for decimal numbers without leading zeros.
DecLE(a, b) ==
    \/ Len(a) < Len(b)
    \/ /\ Len(a) = Len(b)
       /\ \/ a = b
          \/ \E i \in 1..Len(a) : a[i] < b[i] /\ \A j \in 1..(i - 1) : a[j] = b[j]

\* 2^bits - 1, 2^(bits - 1) - 1 and 2^(bits - 1) in decimal.
DecMaxUnsigned(bits) ==
    CASE bits = 16 -> <<6, 5, 5, 3, 5>>
      [] bits = 32 -> <<4, 2, 9, 4, 9, 6, 7, 2, 9, 5>>
      [] bits = 64 -> <<1, 8, 4, 4, 6, 7, 4, 4, 0, 7, 3, 7, 0, 9, 5, 5, 1, 6, 1, 5>>

DecMaxSigned(bits) ==
    CASE bits = 16 -> <<3, 2, 7, 6, 7>>
      [] bits = 32 -> <<2, 1, 4, 7, 4, 8, 3, 6, 4, 7>>
      [] bits = 64 -> <<9, 2, 2, 3, 3, 7, 2, 0, 3, 6, 8, 5, 4, 7, 7, 5, 8, 0, 7>>

DecMinSigned(bits) ==
    CASE bits = 16 -> <<3, 2, 7, 6, 8>>
      [] bits = 32 -> <<2, 1, 4, 7, 4, 8, 3, 6, 4, 8>>
      [] bits = 64 -> <<9, 2, 2, 3, 3, 7, 2, 0, 3, 6, 8, 5, 4, 7, 7, 5, 8, 0, 8>>

\* The number an integer literal denotes is a value of the type T.
InRange(T, L, tok) ==
    LET neg == tok[1] = "-"
        mag == Significant(tok)
    IN  IF IsSigned(T)
        THEN DecLE(mag, IF neg THEN DecMinSigned(Bits(T, L)) ELSE DecMaxSigned(Bits(T, L)))
        ELSE IF neg THEN mag = <<>> ELSE DecLE(mag, DecMaxUnsigned(Bits(T, L)))

\* C11: for every integer type, a token that is an integer literal outside
\* the range of the type makes the parse fail with a ParseError that reads
\* "Argument too large for <type>"; no wrapped or truncated value comes out.
C11_OutOfRangeIsTooLarge ==
    NumberCalled /\ IsIntegerLiteral(line) /\ ~InRange(out[1].type, out[1].long, line)
        => out[1].status = "ParseError" /\ out[1].err = TooLargeMsg(out[1].type)

\* C12: a token that is not as a whole a valid number (such as 12abc) makes
\* the parse fail with "Missing or invalid <type> argument"; no value comes
\* out.
C12_NotANumberIsInvalid ==
    NumberCalled /\ ~IsIntegerLiteral(line)
        => out[1].status = "ParseError" /\ out[1].err = InvalidMsg(out[1].type)

-----------------------------------------------------------------------------
\* Two AutoComplete objects, *this and rhs, and the copy and move operations
\* from rhs to *this.  One of the four is made in a behaviour, on objects
\* whose contents were built by Insert and Remove before, those of rhs first.

MaxCopyCount == 2

\* The words the two objects are built from.
CopyDict == { <<"s", "e">>, <<"s", "e", "t">>, <<"e">> }

CopyOps == {"copy constructor", "operator=", "move constructor", "move operator="}

Copied == acOut.op \in CopyOps

\* *this has just got its default member initializers and nothing else.
Fresh == m_Root = nullptr /\ m_Size = 0 /\ m_Count = 0 /\ acOut = NoCall

\* rhs.Insert(word)
InsertRhs(word) ==
    /\ rhs.m_Count < MaxCopyCount
    /\ \E s \in {InsertWord([heap |-> heap, root |-> rhs.m_Root,
                             size |-> rhs.m_Size, count |-> rhs.m_Count], word)} :
           /\ heap' = s.heap
           /\ rhs' = [m_Root |-> s.root, m_Size |-> s.size, m_Count |-> s.count]
    /\ UNCHANGED <<m_Root, m_Size, m_Count, acOut>>
    /\ UNCHANGED <<argVars, sysVars>>

\* rhs.Remove(word)
RemoveRhs(word) ==
    /\ heap' = RemoveWord(heap, rhs.m_Root, word)
    /\ UNCHANGED <<m_Root, m_Size, m_Count, acOut, rhs>>
    /\ UNCHANGED <<argVars, sysVars>>

\* AutoComplete(const AutoComplete &tree), with rhs as tree.
CopyConstruct ==
    /\ Fresh
    /\ \E c \in {DeepClone(heap, rhs.m_Root, nullptr)} :
           /\ heap' = c.heap
           /\ m_Root' = c.dest
    /\ m_Size' = rhs.m_Size
    /\ m_Count' = rhs.m_Count
    /\ acOut' = [NoCall EXCEPT !.op = "copy constructor"]
    /\ UNCHANGED <<rhs, argVars, sysVars>>

\* operator=(const AutoComplete &rhs); rhs is another object than *this.
CopyAssign ==
    /\ \E c \in {DeepClone(DeleteNode(heap, m_Root), rhs.m_Root, m_Root)} :
           /\ heap' = c.heap
           /\ m_Root' = c.dest
    /\ m_Size' = rhs.m_Size
    /\ m_Count' = rhs.m_Count
    /\ acOut' = [NoCall EXCEPT !.op = "operator="]
    /\ UNCHANGED <<rhs, argVars, sysVars>>

\* AutoComplete(AutoComplete &&rhs) = default
MoveConstruct ==
    /\ Fresh
    /\ \E m \in {MovedFrom(rhs)} :
           /\ m_Root' = m.m_Root
           /\ m_Size' = m.m_Size
           /\ m_Count' = m.m_Count
    /\ acOut' = [NoCall EXCEPT !.op = "move constructor"]
    /\ UNCHANGED <<heap, rhs, argVars, sysVars>>

\* operator=(AutoComplete &&rhs) = default; the nodes *this had stay
\* allocated.
MoveAssign ==
    /\ \E m \in {MovedFrom(rhs)} :
           /\ m_Root' = m.m_Root
           /\ m_Size' = m.m_Size
           /\ m_Count' = m.m_Count
    /\ acOut' = [NoCall EXCEPT !.op = "move operator="]
    /\ UNCHANGED <<heap, rhs, argVars, sysVars>>

CopyInit == ACInit /\ ArgIdle /\ SysInit

CopyNext ==
    \/ \E w \in CopyDict : ~Copied /\ m_Count < MaxCopyCount /\ Insert(w)
    \/ \E w \in CopyDict : ~Copied /\ Remove(w)
    \/ \E w \in CopyDict : Fresh /\ InsertRhs(w)
    \/ \E w \in CopyDict : Fresh /\ RemoveRhs(w)
    \/ ~Copied /\ CopyConstruct
    \/ ~Copied /\ CopyAssign
    \/ ~Copied /\ MoveConstruct
    \/ ~Copied /\ MoveAssign

CopySpec == CopyInit /\ [][CopyNext]_vars

\* The allocated nodes reachable from n.
RECURSIVE Reachable(_, _)
Reachable(h, n) ==
    IF n \notin DOMAIN h THEN {}
    ELSE {n} \cup Reachable(h, h[n].m_Less) \cup Reachable(h, h[n].m_Equal)
             \cup Reachable(h, h[n].m_Greater)

\* C13: after a copy construction, copy assignment, move construction or
\* move assignment no node is reachable from both objects.
C13_NoNodeSharedAfterCopyOrMove ==
    Copied => Reachable(heap, m_Root) \cap Reachable(heap, rhs.m_Root) = {}

\* n is null or an allocated node.
Valid(n) == n = nullptr \/ n \in DOMAIN heap

\* C14: after a copy construction or copy assignment the root of the copy
\* is null or an allocated node, Count() and Size() are those of the source
\* and Search answers the same for every word.
C14_CopyEqualsSource ==
    acOut.op \in {"copy constructor", "operator="}
        => /\ Valid(m_Root)
           /\ m_Count = rhs.m_Count
           /\ m_Size = rhs.m_Size
           /\ \A w \in Probes : Search(heap, m_Root, w) = Search(heap, rhs.m_Root, w)

-----------------------------------------------------------------------------
\* C15: after any sequence of Insert and Remove, Size() is the number of
\* nodes allocated in the tree.
C15_SizeIsNumberOfNodes == Size = Cardinality(Subtree(heap, m_Root))

-----------------------------------------------------------------------------
\* Insert and Remove with the empty word among the words inserted.

Words == Dict \cup {<<>>}

WordInit == ACInit /\ ArgIdle /\ SysInit

WordNext ==
    \/ \E w \in Words : Insert(w)
    \/ \E w \in Dict : Remove(w)

WordSpec == WordInit /\ [][WordNext]_vars

\* C16: Insert(w) adds one to Count() when w is not stored and nothing when
\* it is, for every word and the empty word too; an Insert(w) that follows
\* an Insert(w) leaves nodes, word marks, Count() and Size() as they were.
C16_InsertCountsNewWordsOnce ==
    [][\A w \in Words :
          acOut'.op = "Insert" /\ acOut'.arg = w
              => /\ m_Count' = m_Count + (IF Search(heap, m_Root, w) THEN 0 ELSE 1)
                 /\ (acOut.op = "Insert" /\ acOut.arg = w
                        => UNCHANGED <<heap, m_Root, m_Size, m_Count>>)]_vars

-----------------------------------------------------------------------------
\* String::NextPoi on every buffer and every cursor inside it.

PoiAlphabet == {" ", "\t", "a", "["}

MaxPoiLen == 4

PoiLines == Strings(PoiAlphabet, MaxPoiLen)

\* input.NextPoi(start)
NextPoiCall ==
    /\ out = <<>>
    /\ \E range \in {NextPoi(inputBuf, cursor)} :
           /\ cursor' = range.second
           /\ out' = <<[op |-> "NextPoi", start |-> cursor,
                        first |-> range.first, second |-> range.second]>>
    /\ UNCHANGED <<line, inputBuf, acVars, sysVars>>

PoiInit ==
    /\ ACInit /\ SysInit
    /\ line \in PoiLines
    /\ inputBuf = line
    /\ cursor \in 0..Len(line)
    /\ out = <<>>

PoiNext == NextPoiCall

PoiSpec == PoiInit /\ [][PoiNext]_vars

PoiCalled == out # <<>> /\ out[1].op = "NextPoi"

\* Some character at or after position p is not whitespace.
TokenAhead(p) == \E q \in p..(Len(line) - 1) : ~IsSpace(At(line, q))

\* C17: for every buffer and every cursor up to its length, NextPoi returns
\* as first the first position from the cursor on that holds no whitespace
\* and as second the first position after it that holds whitespace, or the
\* length; the cursor becomes second and the buffer is untouched, with
\* first <= second <= length.  With nothing but whitespace from the cursor
\* on, first is length + 1, which is End().
C17_NextPoiIsNextToken ==
    PoiCalled =>
        LET first  == out[1].first
            second == out[1].second
            length == Len(line)
        IN  /\ inputBuf = line
            /\ cursor = second
            /\ IF TokenAhead(out[1].start)
               THEN /\ first \in out[1].start..(length - 1)
                    /\ ~IsSpace(At(line, first))
                    /\ \A p \in out[1].start..(first - 1) : IsSpace(At(line, p))
                    /\ second \in (first + 1)..length
                    /\ second < length => IsSpace(At(line, second))
                    /\ \A p \in (first + 1)..(second - 1) : ~IsSpace(At(line, p))
                    /\ first <= second /\ second <= length
               ELSE first = length + 1 /\ first = End(inputBuf)

\* Whitespace was skipped and the token ends before the end of the buffer.
C17_Witness ==
    PoiCalled /\ out[1].start < out[1].first /\ out[1].second < Len(line)

\* Nothing but whitespace was left.
C17_WitnessSentinel ==
    PoiCalled /\ out[1].start < Len(line) /\ out[1].first = End(line)

-----------------------------------------------------------------------------
\* The char parsers on every short line.

CharAlphabet == {"\\", "[", "\"", "a", "b", " "}

MaxCharLen == 3

CharLines == Strings(CharAlphabet, MaxCharLen)

\* Arg<char>::Parse and Arg<unsigned char>::Parse on a fresh line.
CharParserCall(T) ==
    /\ out = <<>>
    /\ \E r \in {ArgParse(T, inputBuf, cursor)} :
           /\ inputBuf' = r.input
           /\ cursor' = r.start
           /\ out' = <<Call("char", T, r)>>
    /\ UNCHANGED <<line, acVars, sysVars>>

CharInit == ACInit /\ ArgInit(CharLines) /\ SysInit

CharNext == \E T \in CharTypes : CharParserCall(T)

CharSpec == CharInit /\ [][CharNext]_vars

CharCalled == out # <<>> /\ out[1].op = "char"

\* The first token of the line, empty when there is none.
FirstToken ==
    LET toks == TokensFrom(line, 0)
    IN  IF toks = <<>> THEN <<>> ELSE toks[1]

\* C18: a char or unsigned char argument parses exactly when its token is
\* one character that is not reserved, which is the value, or the escape
\* marker followed by a reserved character, which is the value; every other
\* token, and a missing one, is a ParseError.
C18_CharIsOneCharOrEscapePair ==
    CharCalled =>
        LET tok == FirstToken
        IN  IF Len(tok) = 1 /\ tok[1] \notin s_Reserved
            THEN out[1].status = "ok" /\ out[1].value = tok[1]
            ELSE IF Len(tok) = 2 /\ tok[1] = "\\" /\ tok[2] \in s_Reserved
            THEN out[1].status = "ok" /\ out[1].value = tok[2]
            ELSE out[1].status = "ParseError"

\* An escape pair was parsed.
C18_Witness ==
    CharCalled /\ Len(FirstToken) = 2 /\ out[1].status = "ok" /\ out[1].value = "["

\* A single reserved character was refused.
C18_WitnessReserved ==
    CharCalled /\ FirstToken = <<"[">> /\ out[1].status = "ParseError"

-----------------------------------------------------------------------------
\* The first token of the line does not start with a quote.
BareWordLine == FirstToken # <<>> /\ FirstToken[1] # "\""

\* C19: a String argument whose token does not start with a quote is that
\* one token with its escape pairs replaced by the reserved character, and
\* the tokens left after it are the other tokens of the line; a token with a
\* reserved character outside an escape pair is a ParseError.
C19_BareWordIsOneToken ==
    (StringCalled /\ BareWordLine) =>
        IF HasBareReserved(FirstToken, 0, Len(FirstToken))
        THEN out[1].status = "ParseError"
        ELSE /\ out[1].status = "ok"
             /\ out[1].value = Unescaped(FirstToken, 0, Len(FirstToken))
             /\ TokensFrom(line, cursor) = Tail(TokensFrom(line, 0))

\* A bare word with an escape pair was parsed and another token follows.
C19_Witness ==
    /\ StringCalled /\ BareWordLine
    /\ out[1].status = "ok"
    /\ Len(out[1].value) < Len(FirstToken)
    /\ Len(TokensFrom(line, 0)) > 1

\* A bare word with an unescaped reserved character was refused.
C19_WitnessReserved ==
    /\ StringCalled /\ BareWordLine
    /\ out[1].status = "ParseError"

-----------------------------------------------------------------------------
\* Commands whose last parameter is a vector.

TrailingVectorCommands ==
    { [name |-> <<"t","a","g">>, args |-> <<"int", VectorOf("int")>>],
      [name |-> <<"a","l","l">>, args |-> <<VectorOf("int")>>] }

TrailingVectorLines ==
    { <<"t","a","g"," ","1"," ","[","2"," ","3","]">>,
      <<"t","a","g"," ","1"," ","[","]">>,
      <<"t","a","g"," ","1">>,
      <<"t","a","g"," ","1"," ">>,
      <<"t","a","g">>,
      <<"t","a","g"," ","1"," ","2">>,
      <<"a","l","l"," ","[","1","]">>,
      <<"a","l","l"," ","[","1","]"," ","2">>,
      <<"a","l","l"," ","[">>,
      <<"a","l","l">>,
      <<"a","l","l"," "," ">> }

TrailingInit == ACInit /\ ArgIdle /\ SysInit

TrailingNext ==
    \/ \E c \in TrailingVectorCommands : RegisterCommand(c)
    \/ \E l \in TrailingVectorLines : RunCommand(l)

TrailingSpec == TrailingInit /\ [][TrailingNext]_vars

\* The line names a registered command whose last parameter is a vector and
\* gives fitting tokens for all parameters but the last, and no more.
VectorArgumentOmitted ==
    LET toks == TokensFrom(line, 0)
    IN  /\ toks # <<>>
        /\ toks[1] \in { c.name : c \in TrailingVectorCommands }
        /\ toks[1] \in DOMAIN m_Commands
        /\ Len(toks) = Len(m_Commands[toks[1]].m_Arguments)
        /\ \A i \in 2..Len(toks) : AllDigits(toks[i])

\* C20: when the last parameter of a command is a vector and the line ends
\* before any token for it, the command runs without error and its callback
\* gets an empty vector for that parameter.
C20_TrailingVectorIsOptional ==
    (CommandRan /\ VectorArgumentOmitted) =>
        LET N == Len(m_Commands[out[1].cmd].m_Arguments)
        IN  /\ Len(LastRunCalls) = 1
            /\ LastRunCalls[1].args[N] = <<>>
            /\ m_ItemLog[Len(m_ItemLog)].m_Type # "ERROR"

-----------------------------------------------------------------------------
\* Commands registered under names with whitespace around the word.

PaddedCommands ==
    { [name |-> <<" ","a","d","d">>, args |-> <<"int", "int">>],
      [name |-> <<"n","o","p"," ">>, args |-> <<>>],
      [name |-> <<"a","d","d">>, args |-> <<"int", "int">>] }

PaddedLines ==
    { <<"a","d","d"," ","1"," ","2">>,
      <<" ","a","d","d"," ","1"," ","2">>,
      <<"n","o","p">>,
      <<"h","e","l","p"," ","a","d","d">>,
      <<"h","e","l","p"," ","n","o","p">>,
      <<"h","e","l","p">> }

PaddedInit == ACInit /\ ArgIdle /\ SysInit

PaddedNext ==
    \/ \E c \in PaddedCommands : RegisterCommand(c)
    \/ \E l \in PaddedLines : RunCommand(l)

PaddedSpec == PaddedInit /\ [][PaddedNext]_vars

\* The name is one word with whitespace before or after it.
IsPadded(name) == Len(TokensFrom(name, 0)) = 1 /\ TokensFrom(name, 0)[1] # name

\* The commands of the host registered under a padded name whose word is w.
PaddedAs(commands, w) ==
    { k \in DOMAIN commands :
        commands[k].m_Function = "host" /\ IsPadded(k) /\ TokensFrom(k, 0) = <<w>> }

\* C21: a command registered under a single word with whitespace before or
\* after it is registered under the word alone: running the word with
\* fitting arguments invokes the callback once, and running help <word>
\* logs the help text of the command.
C21_PaddedNameIsStripped ==
    [][RunStep =>
         LET toks == TokensFrom(line', 0)
         IN  /\ \A k \in PaddedAs(m_Commands, toks[1]) :
                   (/\ Len(toks) - 1 = Len(m_Commands[k].m_Arguments)
                    /\ \A i \in 2..Len(toks) : AllDigits(toks[i]))
                   => Len(calls') = Len(calls) + 1
             /\ (Len(toks) = 2 /\ toks[1] = s_Help) =>
                   \A k \in PaddedAs(m_Commands, toks[2]) :
                      m_ItemLog'[Len(m_ItemLog')] =
                         Item("LOG", Help(m_Commands[k]) \o <<endl>>)
      ]_vars

-----------------------------------------------------------------------------
\* A CommandHistory of a small capacity, filled and cleared.  out lists the
\* lines pushed since the construction or the last Clear.

MaxCapacity == 3

MaxPushes == 7

HistoryLines == { <<"a">>, <<"b">>, <<"a","b">> }

\* history.PushBack(l)
HistoryPushBack(l) ==
    /\ Len(out) < MaxPushes
    /\ m_CommandHistory' = PushBack(m_CommandHistory, l)
    /\ out' = Append(out, l)
    /\ UNCHANGED <<m_Commands, m_CommandSuggestionTree, m_VariableSuggestionTree,
                   m_ItemLog, calls, hostVars, line, inputBuf, cursor, acVars>>

\* history.Clear()
HistoryClear ==
    /\ m_CommandHistory' = Clear(m_CommandHistory)
    /\ out' = <<>>
    /\ UNCHANGED <<m_Commands, m_CommandSuggestionTree, m_VariableSuggestionTree,
                   m_ItemLog, calls, hostVars, line, inputBuf, cursor, acVars>>

HistInit ==
    /\ ACInit /\ ArgIdle
    /\ m_Commands = NewSystem.m_Commands
    /\ m_CommandSuggestionTree = NewSystem.m_CommandSuggestionTree
    /\ m_VariableSuggestionTree = NewSystem.m_VariableSuggestionTree
    /\ m_ItemLog = NewSystem.m_ItemLog
    /\ calls = <<>>
    /\ m_RegisterCommandSuggestion = NewSystem.m_RegisterCommandSuggestion
    /\ m_Scripts = <<>>
    /\ m_HistoryIndex = 0
    /\ m_Buffer = <<>>
    /\ frames = <<>>
    /\ \E maxRecord \in 1..MaxCapacity :
          m_CommandHistory = CommandHistory(maxRecord)

HistNext ==
    \/ \E l \in HistoryLines : HistoryPushBack(l)
    \/ HistoryClear

HistSpec == HistInit /\ [][HistNext]_vars

Min(a, b) == IF a < b THEN a ELSE b

\* C22: with n >= 1 lines pushed since the construction or the last Clear
\* of a history of capacity M, Size() is min(n, M), GetNew() is the line
\* pushed last, GetOld() is the line pushed min(n, M) - 1 pushes before it,
\* and the min(n, M) lines pushed last are all in the storage.
C22_HistoryKeepsTheNewestLines ==
    LET n == Len(out)
        M == m_CommandHistory.m_MaxRecord
        k == Min(n, M)
    IN  n >= 1 =>
           /\ HistorySize(m_CommandHistory) = k
           /\ GetNew(m_CommandHistory) = out[n]
           /\ GetOld(m_CommandHistory) = out[n - k + 1]
           /\ \A j \in 0..(k - 1) :
                 Slot(m_CommandHistory,
                      (GetOldIndex(m_CommandHistory) + j) % M) = out[n - k + 1 + j]

\* The writes have wrapped after a Clear: more lines than the capacity were
\* pushed, over slots that held older lines.
C22_Witness ==
    /\ Len(out) > m_CommandHistory.m_MaxRecord
    /\ m_CommandHistory.m_MaxRecord > 1
    /\ m_CommandHistory.m_Record = Len(out)
    /\ GetOldIndex(m_CommandHistory) # 0
    /\ GetNew(m_CommandHistory) # GetOld(m_CommandHistory)

-----------------------------------------------------------------------------
\* The queries of AutoComplete.

\* The step is a call of Search, Suggestions or Suggestions with partial
\* completion: every call records its operation in acOut.
QueryStep == acOut'.op \in {"Search", "Suggestions", "PartialComplete"}

\* C23: Search, Suggestions and Suggestions with partial completion leave
\* the nodes, the word marks, Count and Size as they were; the prefix handed
\* back starts with the caller's prefix, and differs from it only after a
\* partial completion.
C23_QueriesLeaveTheTreeUnchanged ==
    [][QueryStep =>
          /\ heap' = heap
          /\ m_Root' = m_Root
          /\ m_Size' = m_Size
          /\ m_Count' = m_Count
          /\ acOut'.op # "Search" => IsPrefixOf(acOut'.arg, acOut'.prefix)
          /\ acOut'.op = "Suggestions" => acOut'.prefix = acOut'.arg]_vars

\* A partial completion has appended to the prefix on a tree of two words.
C23_Witness ==
    /\ acOut.op = "PartialComplete"
    /\ Len(acOut.prefix) > Len(acOut.arg)
    /\ acOut.options # <<>>
    /\ m_Count = 2

-----------------------------------------------------------------------------
\* The order of the nodes of a ternary search tree.

\* The allocated nodes at the position of n: n and the nodes reached from
\* it over m_Less and m_Greater edges.
RECURSIVE Siblings(_, _)
Siblings(h, n) ==
    IF n \notin DOMAIN h THEN {}
    ELSE {n} \cup Siblings(h, h[n].m_Less) \cup Siblings(h, h[n].m_Greater)

\* Below every allocated node the characters reached over its m_Less edge
\* are smaller and those reached over its m_Greater edge are larger.
Ordered(h) ==
    \A n \in DOMAIN h :
        /\ \A k \in Siblings(h, h[n].m_Less) : Ord(h[k].m_Data) < Ord(h[n].m_Data)
        /\ \A k \in Siblings(h, h[n].m_Greater) : Ord(h[k].m_Data) > Ord(h[n].m_Data)

-----------------------------------------------------------------------------
\* The nodes a Remove leaves behind.

\* The dead nodes of the tree: no children and not the end of a word.
DeadNodes(h, root) ==
    { n \in Reachable(h, root) : NoChildren(h[n]) /\ ~h[n].m_IsWord }

\* C25: Remove of a stored word, on a tree without dead nodes, leaves a tree
\* without dead nodes.
C25_RemoveLeavesNoDeadNode ==
    [][(/\ acOut'.op = "Remove"
        /\ acOut'.found
        /\ heap' # heap
        /\ DeadNodes(heap, m_Root) = {})
          => DeadNodes(heap', m_Root') = {}]_vars

-----------------------------------------------------------------------------
\* Reserved::IsEscaped on every buffer and every position of it.

EscAlphabet == {"\\", "\"", "[", "a"}

MaxEscLen == 4

EscLines == Strings(EscAlphabet, MaxEscLen)

\* Reserved::IsEscaped(input, pos)
IsEscapedCall ==
    /\ out = <<>>
    /\ out' = <<[op |-> "IsEscaped", pos |-> cursor,
                 result |-> IsEscaped(inputBuf, cursor)]>>
    /\ UNCHANGED <<line, inputBuf, cursor, acVars, sysVars>>

EscInit ==
    /\ ACInit /\ SysInit
    /\ line \in EscLines \ {<<>>}
    /\ inputBuf = line
    /\ cursor \in 0..(Len(line) - 1)
    /\ out = <<>>

EscNext == IsEscapedCall

EscSpec == EscInit /\ [][EscNext]_vars

\* The scan from position i that pairs each escaping marker with the
\* character after it, as the loop of GetWord does: p is the second of a
\* pair.
RECURSIVE PairedByScan(_, _, _)
PairedByScan(s, i, p) ==
    IF i >= p THEN FALSE
    ELSE IF IsEscaping(s, i)
         THEN i + 1 = p \/ PairedByScan(s, i + 2, p)
         ELSE PairedByScan(s, i + 1, p)

\* C26: for every buffer and every position holding a reserved character,
\* IsEscaped is true exactly when the number of escape markers right before
\* the position is odd, which is when the scan from the left pairs the
\* position with the marker before it.
C26_IsEscapedIsOddMarkerRun ==
    (/\ out # <<>>
     /\ out[1].op = "IsEscaped"
     /\ IsReservedChar(At(line, out[1].pos)))
        => /\ out[1].result = (MarkersBefore(line, out[1].pos) % 2 = 1)
           /\ out[1].result = PairedByScan(line, 0, out[1].pos)
           /\ inputBuf = line

\* IsEscaped has answered true for a reserved character after three markers.
C26_Witness ==
    /\ out # <<>>
    /\ out[1].op = "IsEscaped"
    /\ At(line, out[1].pos) = "["
    /\ MarkersBefore(line, out[1].pos) = 3
    /\ out[1].result

-----------------------------------------------------------------------------
\* Registration and unregistration of commands and variables.

RegCommandNames == { <<"a","d","d">>, <<"n","o","p">>, <<"a"," ","d">> }

RegVariableNames == { <<"x">>, <<"x"," ","y">> }

UnregCommandNames == { <<"a","d","d">>, <<"n","o","p">>, s_Help }

\* AutoComplete::m_Count only grows: the registrations stop when a tree
\* has counted this many words.
MaxTreeCount == 5

CanRegister ==
    /\ m_CommandSuggestionTree.count < MaxTreeCount
    /\ m_VariableSuggestionTree.count < MaxTreeCount

\* The members of System as a record.
ThisSystem ==
    SystemOf(m_Commands, m_CommandSuggestionTree, m_VariableSuggestionTree,
             m_ItemLog, m_RegisterCommandSuggestion)

\* The call leaves the members of System as in sys; thrown tells how the
\* call ended.
Becomes(op, name, sys) ==
    /\ m_Commands' = sys.m_Commands
    /\ m_CommandSuggestionTree' = sys.m_CommandSuggestionTree
    /\ m_VariableSuggestionTree' = sys.m_VariableSuggestionTree
    /\ m_ItemLog' = sys.m_ItemLog
    /\ m_RegisterCommandSuggestion' = sys.m_RegisterCommandSuggestion
    /\ calls' = <<[op |-> op, name |-> name, thrown |-> sys.thrown]>>
    /\ UNCHANGED <<m_CommandHistory, m_Scripts, m_HistoryIndex, m_Buffer, frames,
                   acVars, argVars>>

\* The parameter lists the host registers commands with.
RegArguments == { <<>>, <<"int">> }

\* RegisterCommand(name, description, function, args...)
RegRegisterCommand(name) ==
    /\ CanRegister
    /\ \E args \in RegArguments :
       \E sys \in {RegisterCommandIn(ThisSystem, name, args, "host")} :
           Becomes("RegisterCommand", name, sys)

\* RegisterVariable(name, var, Arg<int>(""))
RegRegisterVariable(name) ==
    /\ CanRegister
    /\ \E sys \in {RegisterVariableIn(ThisSystem, name, "int")} :
           Becomes("RegisterVariable", name, sys)

\* UnregisterCommand(cmd_name)
RegUnregisterCommand(cmd_name) ==
    \E sys \in {UnregisterCommandIn(ThisSystem, cmd_name)} :
        Becomes("UnregisterCommand", cmd_name, sys)

\* UnregisterVariable(var_name)
RegUnregisterVariable(var_name) ==
    \E sys \in {UnregisterVariableIn(ThisSystem, var_name)} :
        Becomes("UnregisterVariable", var_name, sys)

RegInit == ACInit /\ ArgIdle /\ SysInit

RegNext ==
    \/ \E name \in RegCommandNames : RegRegisterCommand(name)
    \/ \E name \in RegVariableNames : RegRegisterVariable(name)
    \/ \E name \in UnregCommandNames : RegUnregisterCommand(name)
    \/ \E name \in RegVariableNames : RegUnregisterVariable(name)

RegSpec == RegInit /\ [][RegNext]_vars

\* The single words that are keys of commands in these runs, and the two
\* words the constructor puts in the tree.
RegWords == { <<"a","d","d">>, <<"n","o","p">>, s_Help, s_Set, s_Get }

\* C27: after every sequence of RegisterCommand, RegisterVariable,
\* UnregisterCommand and UnregisterVariable, the calls that end in an
\* exception included, Search on the command tree finds a name exactly when
\* it is a registered command or one of set and get.
C27_CommandTreeIsTheRegisteredCommands ==
    \A name \in RegWords :
        Search(m_CommandSuggestionTree.heap, m_CommandSuggestionTree.root, name)
            <=> (name \in DOMAIN m_Commands \/ name \in {s_Set, s_Get})

\* The name has a second word.
MultiWord(name) == NextPoi(name, NextPoi(name, 0).second).first # End(name)

\* C28: RegisterCommand with a name that is registered, or with a name of
\* more than one word, throws and leaves the commands, both trees and the
\* log as they were: the command registered before keeps its callback and
\* its parameters.
C28_RejectedRegistrationChangesNothing ==
    [][(/\ calls' # <<>>
        /\ calls' # calls
        /\ calls'[1].op = "RegisterCommand"
        /\ calls'[1].name \in DOMAIN m_Commands \/ MultiWord(calls'[1].name))
          => /\ calls'[1].thrown
             /\ m_Commands' = m_Commands
             /\ m_CommandSuggestionTree' = m_CommandSuggestionTree
             /\ m_VariableSuggestionTree' = m_VariableSuggestionTree
             /\ m_ItemLog' = m_ItemLog]_vars

\* A registration of a registered name has thrown, and one of a name of two
\* words has.
C28_Witness ==
    /\ calls # <<>>
    /\ calls[1].op = "RegisterCommand"
    /\ calls[1].thrown
    /\ calls[1].name \in DOMAIN m_Commands
    /\ m_Commands[calls[1].name].m_Arguments = <<"int">>

-----------------------------------------------------------------------------
\* The console: its input bar and the history keys.

\* ImGuiConsole::RegisterConsoleCommands: the run command.
ConsoleSystem ==
    RegisterCommandIn(NewSystem, <<"r","u","n">>, <<"String">>, "run")

\* ImGuiConsole::ImGuiConsole
ConsoleInit ==
    /\ ACInit /\ ArgIdle
    /\ m_Commands = ConsoleSystem.m_Commands
    /\ m_CommandSuggestionTree = ConsoleSystem.m_CommandSuggestionTree
    /\ m_VariableSuggestionTree = ConsoleSystem.m_VariableSuggestionTree
    /\ m_ItemLog = ConsoleSystem.m_ItemLog
    /\ m_RegisterCommandSuggestion = ConsoleSystem.m_RegisterCommandSuggestion
    /\ m_CommandHistory = NewHistory
    /\ calls = <<>>
    /\ m_Scripts = <<>>
    /\ m_HistoryIndex = 0
    /\ m_Buffer = <<>>
    /\ frames = <<>>

\* The lines that are entered before the keys stop.
MaxExecuted == 101

\* The text the user types.
ConsoleLines == { <<"x">> }

\* ImGuiConsole::InputBar when InputText returns true: Enter was pressed on
\* the text typed or fetched from the history.
InputBar(text) ==
    /\ m_CommandHistory.m_Record < MaxExecuted
    /\ RunCommandLine(text, frames)
    /\ m_Buffer' = <<>>
    /\ UNCHANGED <<m_RegisterCommandSuggestion, m_Scripts, m_HistoryIndex>>

\* History()[index]: the slot, or for an index past the last slot whatever
\* lies behind the vector.
HistoryAt(h, index) ==
    IF index < h.m_MaxRecord THEN { Slot(h, index) } ELSE { <<>>, <<"?">> }

\* ImGuiConsole::InputCallback, case ImGuiInputTextFlags_CallbackHistory.
HistoryCallback(EventKey) ==
    \E init \in {IF m_HistoryIndex = 0 THEN GetNewIndex(m_CommandHistory)
                 ELSE m_HistoryIndex} :
    \E index \in {IF EventKey = "ImGuiKey_UpArrow"
                  THEN (IF init # 0 THEN init - 1 ELSE init)
                  ELSE (IF init < HistorySize(m_CommandHistory)
                        THEN init + 1 ELSE init)} :
        /\ m_HistoryIndex' = index
        /\ m_Buffer' \in HistoryAt(m_CommandHistory, index)
        /\ UNCHANGED <<m_Commands, m_CommandSuggestionTree,
                       m_VariableSuggestionTree, m_CommandHistory, m_ItemLog,
                       calls, m_RegisterCommandSuggestion, m_Scripts, frames,
                       acVars, argVars>>

ConNext ==
    \/ \E text \in ConsoleLines \cup {m_Buffer} : InputBar(text)
    \/ \E EventKey \in {"ImGuiKey_UpArrow", "ImGuiKey_DownArrow"} :
          HistoryCallback(EventKey)

ConSpec == ConsoleInit /\ [][ConNext]_vars

\* C29: after every sequence of entered lines and Up and Down keys the
\* index the history is read at is the index of a slot: it is below the
\* capacity.
C29_HistoryIndexIsASlot ==
    m_HistoryIndex < m_CommandHistory.m_MaxRecord

-----------------------------------------------------------------------------
\* Scripts run from the console.

ScriptNames == { <<"x">>, <<"y">> }

\* The line that runs the script.
RunLine(script_name) == <<"r","u","n"," ">> \o script_name

\* The lines of the files the scripts are loaded from.
ScriptFiles ==
    { <<>>,
      << <<"n","o","p">> >>,
      << RunLine(<<"x">>) >>,
      << RunLine(<<"y">>) >>,
      << <<"n","o","p">>, RunLine(<<"y">>) >>,
      << RunLine(<<"x">>), <<"n","o","p">> >> }

\* The calls of RunScript the host makes.
MaxScriptRuns == 1

HostRuns == Cardinality({ i \in 1..Len(calls) : "op" \in DOMAIN calls[i] })

\* System::RegisterScript(name, path), with the lines of the file at path;
\* it throws for a name that is registered.
RegisterScript(name, data) ==
    /\ frames = <<>>
    /\ HostRuns = 0
    /\ IF name \in DOMAIN m_Scripts
       THEN UNCHANGED <<m_Scripts, m_VariableSuggestionTree>>
       ELSE /\ m_Scripts' = (name :> data) @@ m_Scripts
            /\ m_VariableSuggestionTree' = InsertWord(m_VariableSuggestionTree, name)
    /\ UNCHANGED <<m_Commands, m_CommandSuggestionTree, m_CommandHistory,
                   m_ItemLog, calls, m_RegisterCommandSuggestion,
                   m_HistoryIndex, m_Buffer, frames, acVars, argVars>>

\* RunScript(script_name) called by the host: the call up to the loop.
HostRunScript(script_name) ==
    /\ frames = <<>>
    /\ HostRuns < MaxScriptRuns
    /\ \E script \in {RunScript(m_Scripts, frames, script_name)} :
           /\ m_ItemLog' = m_ItemLog \o script.items
           /\ frames' = script.frames
    /\ calls' = Append(calls, [op |-> "RunScript", name |-> script_name])
    /\ UNCHANGED <<m_Commands, m_CommandSuggestionTree, m_VariableSuggestionTree,
                   m_CommandHistory, m_RegisterCommandSuggestion, m_Scripts,
                   m_HistoryIndex, m_Buffer, acVars, argVars>>

\* One turn of the loop of the innermost RunScript: RunCommand(cmd) for the
\* next line, or the return when the lines are through.
ScriptLoop ==
    /\ frames # <<>>
    /\ frames[Len(frames)].pc > 0
    /\ \E top \in {frames[Len(frames)]} :
          IF top.pc > Len(m_Scripts[top.script])
          THEN /\ frames' = SubSeq(frames, 1, Len(frames) - 1)
               /\ UNCHANGED <<m_Commands, m_CommandSuggestionTree,
                              m_VariableSuggestionTree, m_CommandHistory,
                              m_ItemLog, calls, acVars, argVars>>
          ELSE RunCommandLine(m_Scripts[top.script][top.pc],
                              [frames EXCEPT ![Len(frames)].pc = @ + 1])
    /\ UNCHANGED <<m_RegisterCommandSuggestion, m_Scripts, m_HistoryIndex, m_Buffer>>

ScriptNext ==
    \/ \E name \in ScriptNames : \E data \in ScriptFiles : RegisterScript(name, data)
    \/ \E script_name \in ScriptNames : HostRunScript(script_name)
    \/ ScriptLoop

ScriptSpec == ConsoleInit /\ [][ScriptNext]_vars

\* The program runs on one thread: a RunScript that has started goes on.
ScriptLiveSpec == ScriptSpec /\ WF_vars(ScriptLoop)

\* C30: every RunScript that has started returns, also when one of its
\* lines runs a registered script, the same one or another.
C30_RunScriptTerminates == (frames # <<>>) ~> (frames = <<>>)

=============================================================================
